---- MODULE Spec2Model ----
(***************************************************************************)
(* USD viewers (usd_basic_viewer.py, usd_hydra_viewer.py,                  *)
(* usd_hydra_viewer_pyqt6.py): mesh triangulation, face normals and the    *)
(* per-frame render dispatch, as state machines.                           *)
(***************************************************************************)
EXTENDS Integers, Sequences, FiniteSets, TLC

VARIABLES
    meshIn,       \* the mesh prim handed to the triangulation under test
    triOut,       \* what the last triangulation produced
    viewer,       \* "pyside6" (usd_hydra_viewer.py) or "pyqt6" (usd_hydra_viewer_pyqt6.py)
    usdLib,       \* `from pxr import Usd, UsdGeom, ...` succeeded
    imagingLib,   \* `from pxr import UsdImagingGL` succeeded
    glReady,      \* initializeGL has run
    renderer,     \* self.renderer: "None" or "Engine"
    stage,        \* self.stage: the name of the open scene, "None" when there is none
    draw_mode,    \* self.draw_mode
    enable_lighting, \* self.enable_lighting
    camera,       \* self.camera
    frameNo,      \* number of paintGL calls so far
    frame,        \* what the last paintGL did
    errLog,       \* number of render-failure messages printed so far
    hydraFailed,  \* the renderer has failed, at initialization or in a frame
    lastOp,       \* the last handler that ran, with its result
    nEvents,      \* number of camera input events handled so far
    mouse,        \* the buttons held down and the camera's drag flags and last cursor position
    polygon_mode, \* the polygon mode of the GL context, as glPolygonMode left it
    show_wireframe \* self.show_wireframe of the basic viewer

triVars == <<meshIn, triOut>>
viewVars == <<viewer, usdLib, imagingLib, glReady, renderer, stage, draw_mode,
              enable_lighting, camera, frameNo, frame, errLog, hydraFailed,
              lastOp, nEvents, mouse,
                   polygon_mode, show_wireframe>>
vars == <<meshIn, triOut, viewer, usdLib, imagingLib, glReady, renderer, stage,
          draw_mode, enable_lighting, camera, frameNo, frame, errLog,
          hydraFailed, lastOp, nEvents, mouse,
                   polygon_mode, show_wireframe>>

(***************************************************************************)
(* Bounds of the mesh inputs.                                              *)
(***************************************************************************)
MaxFaces == 2
MaxCount == 4
MaxIdx == 4
\* number of frames painted in one run
MaxFrames == 3
\* number of camera input events in one run
MaxEvents == 3
\* largest radius and height of a primitive
MaxDim == 3

(***************************************************************************)
(* Vectors.  A normal is kept exact as [v, d2], standing for v / sqrt(d2). *)
(***************************************************************************)
Sub(a, b) == <<a[1] - b[1], a[2] - b[2], a[3] - b[3]>>

Dot(a, b) == a[1] * b[1] + a[2] * b[2] + a[3] * b[3]

Cross(e1, e2) ==
    << e1[2] * e2[3] - e1[3] * e2[2],
       e1[3] * e2[1] - e1[1] * e2[3],
       e1[1] * e2[2] - e1[2] * e2[1] >>

UpNormal == [v |-> <<0, 1, 0>>, d2 |-> 1]

\* length > 0 of a vector with integer components
LengthPositive(n) == Dot(n, n) > 0

\* normal / length when length > 0, else (0,1,0)
NormalOrUp(n) ==
    IF LengthPositive(n) THEN [v |-> n, d2 |-> Dot(n, n)] ELSE UpNormal

\* render_mesh_simple has no else branch: n is emitted as computed
NormalOrKeep(n) ==
    IF LengthPositive(n) THEN [v |-> n, d2 |-> Dot(n, n)] ELSE [v |-> n, d2 |-> 1]

FaceNormal(v0, v1, v2, upOnZero) ==
    LET n == Cross(Sub(v1, v0), Sub(v2, v0))
    IN  IF upOnZero THEN NormalOrUp(n) ELSE NormalOrKeep(n)

(***************************************************************************)
(* Mesh prim attributes.  An attribute is [present, val]: Get() gives None *)
(* (present = FALSE) or an array.  Python truthiness of the value.         *)
(***************************************************************************)
Truthy(a) == a.present /\ Len(a.val) > 0

Absent == [present |-> FALSE, val |-> <<>>]

Attr(s) == [present |-> TRUE, val |-> s]

SeqsUpTo(S, n) == UNION {[1..k -> S] : k \in 0..n}

PA == <<0, 0, 0>>
PB == <<1, 0, 0>>
PC == <<1, 1, 0>>
PD == <<0, 1, 0>>
PE == <<2, 0, 0>>

\* point arrays: empty, too short, a triangle, collinear points, a quad
PointLists ==
    { <<>>, <<PA, PB>>, <<PA, PB, PC>>, <<PA, PB, PE>>, <<PA, PB, PC, PD>> }

IndexVals == UNION {0..(Len(p) - 1) : p \in PointLists}

\* index arrays long enough for two complete faces: two triangles, and a
\* triangle followed by a quad
TwoFaceIndexLists == { <<0, 1, 2, 0, 2, 3>>, <<0, 1, 2, 0, 1, 2, 3>> }

MeshInputs ==
    [ points  : {Absent} \cup {Attr(p) : p \in PointLists},
      counts  : {Absent} \cup {Attr(c) : c \in SeqsUpTo(0..MaxCount, MaxFaces)},
      indices : {Absent} \cup {Attr(i) : i \in SeqsUpTo(IndexVals, MaxIdx)
                                               \cup TwoFaceIndexLists} ]

Min(a, b) == IF a < b THEN a ELSE b

(***************************************************************************)
(* usd_basic_viewer.py: extract_mesh_from_prim and Mesh.compute_normals.   *)
(* Indices are 0-based in the code and kept 0-based here; a sequence s is  *)
(* read at code index j as s[j + 1].                                       *)
(***************************************************************************)
\* a triangle strip instead of a fan
FanTriangleStrip(face, i) == <<face[i], face[i + 1], face[i + 2]>>

\* mesh.faces.append([face[0], face[i], face[i + 1]])
FanTriangle(face, i) == <<face[1], face[i + 1], face[i + 2]>>

\* no length guard and a loop that starts at 0
FanFacesFromZero(face) ==
    [i \in 1..(Len(face) - 1) |-> <<face[1], face[i], face[i + 1]>>]

\* if len(face) >= 3: for i in range(1, len(face) - 1): ...
FanFaces(face) ==
    IF Len(face) >= 3
    THEN [i \in 1..(Len(face) - 2) |-> FanTriangle(face, i)]
    ELSE <<>>

\* for _ in range(count): if idx < len(indices): face.append(indices[idx]); idx += 1
TakeFace(indices, idx, count) ==
    SubSeq(indices, idx + 1, idx + Min(count, Len(indices) - idx))

RECURSIVE ExtractFaces(_, _, _, _, _)
ExtractFaces(indices, counts, k, idx, faces) ==
    IF k > Len(counts)
    THEN faces
    ELSE LET face == TakeFace(indices, idx, counts[k])
         IN  ExtractFaces(indices, counts, k + 1, idx + Len(face),
                          faces \o FanFaces(face))

\* Python indexing of a list, a numpy array or a Vt array: i in 0..len-1
\* counts from the front, i in -len..-1 from the back, anything else raises
\* IndexError
IndexOk(seq, i) == i < Len(seq) /\ i >= -Len(seq)

PyIndex(seq, i) == IF i >= 0 THEN seq[i + 1] ELSE seq[Len(seq) + i + 1]

\* numpy raises IndexError for vertices[face[j]] outside the array
FaceInRange(vertices, face) == \A j \in 1..3 : IndexOk(vertices, face[j])

compute_normals(vertices, faces) ==
    IF \E t \in 1..Len(faces) : ~FaceInRange(vertices, faces[t])
    THEN [raised |-> TRUE, normals |-> <<>>]
    ELSE [raised |-> FALSE,
          normals |-> [t \in 1..Len(faces) |->
                         NormalOrUp(Cross(
                             Sub(PyIndex(vertices, faces[t][2]), PyIndex(vertices, faces[t][1])),
                             Sub(PyIndex(vertices, faces[t][3]), PyIndex(vertices, faces[t][1]))))]]

extract_mesh_from_prim(prim) ==
    LET vertices == IF Truthy(prim.points) THEN prim.points.val ELSE <<>>
        faces == IF Truthy(prim.indices) /\ Truthy(prim.counts)
                 THEN ExtractFaces(prim.indices.val, prim.counts.val, 1, 0, <<>>)
                 ELSE <<>>
        cn == compute_normals(vertices, faces)
    IN  [raised |-> cn.raised, vertices |-> vertices, faces |-> faces,
         normals |-> cn.normals]

\* `if mesh:` on a Mesh object, which defines neither __bool__ nor __len__
MeshTruthy(mesh) == TRUE

(***************************************************************************)
(* usd_hydra_viewer.py render_mesh_simple and usd_hydra_viewer_pyqt6.py    *)
(* render_mesh: immediate-mode fan triangulation.  A lookup outside        *)
(* indices or points raises IndexError and ends the call.                  *)
(***************************************************************************)
\* points[indices[j]] is defined
PointOk(points, indices, j) ==
    IndexOk(indices, j) /\ IndexOk(points, PyIndex(indices, j))

PointAt(points, indices, j) == PyIndex(points, PyIndex(indices, j))

\* v0, v1, v2 of the i-th triangle of the face at offset idx
FanCorners(idx, i) == <<idx, idx + i, idx + i + 1>>

RECURSIVE FanDraw(_, _, _, _, _, _, _)
FanDraw(points, indices, idx, count, i, upOnZero, acc) ==
    IF i > count - 2
    THEN [raised |-> FALSE, tris |-> acc]
    ELSE LET c == FanCorners(idx, i)
         IN  IF ~PointOk(points, indices, c[2]) \/ ~PointOk(points, indices, c[3])
             THEN [raised |-> TRUE, tris |-> acc]
             ELSE LET v0 == PointAt(points, indices, c[1])
                      v1 == PointAt(points, indices, c[2])
                      v2 == PointAt(points, indices, c[3])
                  IN  FanDraw(points, indices, idx, count, i + 1, upOnZero,
                              Append(acc, [p |-> <<v0, v1, v2>>,
                                           n |-> FaceNormal(v0, v1, v2, upOnZero)]))

\* an offset that only emitted faces advance
NextOffsetEmittedOnly(idx, count) == IF count >= 3 THEN idx + count ELSE idx

\* idx += count, for every face
NextOffset(idx, count) == idx + count

RECURSIVE DrawFaces(_, _, _, _, _, _, _)
DrawFaces(points, indices, counts, k, idx, upOnZero, acc) ==
    IF k > Len(counts)
    THEN [raised |-> FALSE, tris |-> acc]
    ELSE LET count == counts[k]
         IN  IF count >= 3
             THEN IF ~PointOk(points, indices, idx)
                  THEN [raised |-> TRUE, tris |-> acc]
                  ELSE LET f == FanDraw(points, indices, idx, count, 1, upOnZero, acc)
                       IN  IF f.raised
                           THEN f
                           ELSE DrawFaces(points, indices, counts, k + 1,
                                          NextOffset(idx, count), upOnZero, f.tris)
             ELSE DrawFaces(points, indices, counts, k + 1, NextOffset(idx, count),
                            upOnZero, acc)

\* if not points or not indices or not counts: return
MeshDataMissing(prim) ==
    ~Truthy(prim.points) \/ ~Truthy(prim.indices) \/ ~Truthy(prim.counts)

render_mesh_common(prim, upOnZero) ==
    IF MeshDataMissing(prim)
    THEN [drawn |-> FALSE, raised |-> FALSE, tris |-> <<>>]
    ELSE LET d == DrawFaces(prim.points.val, prim.indices.val, prim.counts.val,
                            1, 0, upOnZero, <<>>)
         IN  [drawn |-> TRUE, raised |-> d.raised, tris |-> d.tris]

\* PySide6 viewer
render_mesh_simple(prim) == render_mesh_common(prim, FALSE)

\* PyQt6 viewer
render_mesh(prim) == render_mesh_common(prim, TRUE)

(***************************************************************************)
(* Scenes.  A stage is the sequence of its prims in traversal order, each  *)
(* after its parent; parent = 0 is the pseudo-root.                        *)
(***************************************************************************)
PrimTypes ==
    {"Xform", "Mesh", "Cube", "Sphere", "Cylinder", "Cone", "Capsule", "Light", "Other"}

NoMesh == [points |-> Absent, counts |-> Absent, indices |-> Absent]

GroundMesh ==
    [points  |-> Attr(<< <<-5, 0, -5>>, <<5, 0, -5>>, <<5, 0, 5>>, <<-5, 0, 5>> >>),
     indices |-> Attr(<<0, 1, 2, 3>>),
     counts  |-> Attr(<<4>>)]

TriangleMesh ==
    [points  |-> Attr(<<PA, PB, PC>>),
     indices |-> Attr(<<0, 1, 2>>),
     counts  |-> Attr(<<3>>)]

\* a triangle whose last index counts from the back of the points
NegativeIndexMesh == [TriangleMesh EXCEPT !.indices = Attr(<<0, 1, -1>>)]

\* a triangle whose last index names no point
OutOfRangeMesh == [TriangleMesh EXCEPT !.indices = Attr(<<0, 1, 3>>)]

\* two faces of three, and four indices
ShortIndexMesh ==
    [TriangleMesh EXCEPT !.indices = Attr(<<0, 1, 2, 0>>), !.counts = Attr(<<3, 3>>)]

Prim(type, parent, mesh) == [type |-> type, parent |-> parent, mesh |-> mesh]

\* create_sample_stage: /World holding Cube, Sphere, Cylinder, Ground
\* (and, in usd_hydra_viewer.py, a DistantLight)
SampleScene(v) ==
    << Prim("Other", 0, NoMesh),
       Prim("Cube", 1, NoMesh),
       Prim("Sphere", 1, NoMesh),
       Prim("Cylinder", 1, NoMesh),
       Prim("Mesh", 1, GroundMesh) >>
    \o (IF v = "pyside6" THEN << Prim("Light", 1, NoMesh) >> ELSE <<>>)

GroupScene ==
    << Prim("Xform", 0, NoMesh),
       Prim("Cone", 1, NoMesh),
       Prim("Capsule", 1, NoMesh),
       Prim("Light", 0, NoMesh),
       Prim("Sphere", 4, NoMesh),
       Prim("Other", 0, NoMesh),
       Prim("Cylinder", 6, NoMesh),
       Prim("Cube", 0, NoMesh),
       Prim("Mesh", 8, TriangleMesh) >>

MeshScene ==
    << Prim("Mesh", 0, TriangleMesh),
       Prim("Mesh", 1, [TriangleMesh EXCEPT !.points = Absent]),
       Prim("Xform", 0, NoMesh),
       Prim("Mesh", 3, [TriangleMesh EXCEPT !.counts = Attr(<<>>)]) >>

\* a point cloud of one point: a Mesh with points and no faces
PointScene ==
    << Prim("Mesh", 0, [NoMesh EXCEPT !.points = Attr(<< <<2, 3, 4>> >>)]) >>

\* one large triangle
HugeScene ==
    << Prim("Mesh", 0, [TriangleMesh EXCEPT
                          !.points = Attr(<< <<-1500, 0, 0>>, <<1500, 0, 0>>, <<0, 1, 0>> >>)]) >>

\* a mesh whose index names no point, before a sound mesh and a cube
BrokenScene ==
    << Prim("Mesh", 0, OutOfRangeMesh),
       Prim("Mesh", 0, TriangleMesh),
       Prim("Cube", 0, NoMesh) >>

\* files on disk: what Usd.Stage.Open does with each, and its world bound
Files ==
    {"group.usda", "meshes.usda", "point.usda", "huge.usda", "broken.usda",
     "empty.usda", "missing.usda", "corrupt.usda"}

FileOpen(f) ==
    CASE f = "missing.usda" -> "null"
      [] f = "corrupt.usda" -> "raise"
      [] OTHER -> "ok"

EmptyRange == [empty |-> TRUE, min |-> <<0, 0, 0>>, max |-> <<0, 0, 0>>]

FileBBox(f) ==
    CASE f = "sample" -> [empty |-> FALSE, min |-> <<-5, 0, -5>>, max |-> <<5, 2, 5>>]
      [] f = "group.usda" -> [empty |-> FALSE, min |-> <<-2, 0, -2>>, max |-> <<4, 2, 2>>]
      [] f = "meshes.usda" -> [empty |-> FALSE, min |-> <<0, 0, 0>>, max |-> <<1, 1, 0>>]
      [] f = "point.usda" -> [empty |-> FALSE, min |-> <<2, 3, 4>>, max |-> <<2, 3, 4>>]
      [] f = "huge.usda" -> [empty |-> FALSE, min |-> <<-1500, 0, 0>>, max |-> <<1500, 1, 0>>]
      [] f = "broken.usda" -> [empty |-> FALSE, min |-> <<-1, -1, -1>>, max |-> <<1, 1, 1>>]
      [] OTHER -> EmptyRange

Scene(name, v) ==
    CASE name = "sample" -> SampleScene(v)
      [] name = "group.usda" -> GroupScene
      [] name = "meshes.usda" -> MeshScene
      [] name = "point.usda" -> PointScene
      [] name = "huge.usda" -> HugeScene
      [] name = "broken.usda" -> BrokenScene
      [] OTHER -> <<>>

\* stage.Traverse() yields the prims depth-first in document order, which is
\* the order a scene lists them in: the k-th prim visited is prim k
Traverse(prims) == [k \in 1..Len(prims) |-> k]

(***************************************************************************)
(* Cameras.  distance, near and far are in 1/1000 of a scene unit, target  *)
(* in 1/1000000 of a scene unit and angles in 1/10 of a degree.            *)
(***************************************************************************)
NewCamera ==
    [distance |-> 10000, azimuth |-> 450, elevation |-> 300, target |-> <<0, 0, 0>>,
     fov |-> 450, near |-> 100, far |-> 10000000]

Max2(a, b) == IF a > b THEN a ELSE b

\* a framing that takes the largest extent itself as the distance
frame_bounds_single_extent(cam, bbox_min, bbox_max) ==
    LET size == Max2(bbox_max[1] - bbox_min[1],
                     Max2(bbox_max[2] - bbox_min[2], bbox_max[3] - bbox_min[3]))
    IN  [cam EXCEPT
           !.target = << (bbox_min[1] + bbox_max[1]) * 500000,
                         (bbox_min[2] + bbox_max[2]) * 500000,
                         (bbox_min[3] + bbox_max[3]) * 500000 >>,
           !.distance = IF size > 0 THEN size * 1000 ELSE 10000]

\* center = (min + max) / 2; distance = size * 2.0 if size > 0 else 10.0
frame_bounds(cam, bbox_min, bbox_max) ==
    LET size == Max2(bbox_max[1] - bbox_min[1],
                     Max2(bbox_max[2] - bbox_min[2], bbox_max[3] - bbox_min[3]))
    IN  [cam EXCEPT
           !.target = << (bbox_min[1] + bbox_max[1]) * 500000,
                         (bbox_min[2] + bbox_max[2]) * 500000,
                         (bbox_min[3] + bbox_max[3]) * 500000 >>,
           !.distance = IF size > 0 THEN size * 2000 ELSE 10000]

\* eye = target + distance * (cos el sin az, sin el, cos el cos az), kept symbolic
get_position(cam) ==
    [target |-> cam.target, distance |-> cam.distance,
     azimuth |-> cam.azimuth, elevation |-> cam.elevation]

\* Gf.Matrix4d().SetLookAt(eye, target, up)
get_view_matrix(cam) ==
    [eye |-> get_position(cam), at |-> cam.target, up |-> <<0, 1, 0>>]

\* frustum.SetPerspective(fov, aspect, near, far)
get_projection_matrix(cam) ==
    [fov |-> cam.fov, aspect |-> "w/h", near |-> cam.near, far |-> cam.far]

\* usd_basic_viewer.py Camera.__init__
NewBasicCamera ==
    [distance |-> 5000, azimuth |-> 450, elevation |-> 300, target |-> <<0, 0, 0>>]

AllViewers == {"basic", "pyside6", "pyqt6"}

Buttons == {"left", "right", "middle"}

\* the mouse state of a new camera: last_x = last_y = 0 (basic), last_pos =
\* None (Qt), no drag flag set; `held` is the set of buttons physically down
NewMouse(v) ==
    [held |-> {},
     rotating |-> FALSE, panning |-> FALSE, zooming |-> FALSE,
     last |-> IF v = "basic" THEN <<0, 0>> ELSE "None"]

\* degrees per pixel of drag, in 1/10 degree: 0.5 (basic), 0.3 (Qt)
RotateSpeed(v) == IF v = "basic" THEN 5 ELSE 3

\* the rotate that clamps nothing
rotate_unclamped(v, cam, dx, dy) ==
    [cam EXCEPT !.azimuth = @ - dx * RotateSpeed(v),
                !.elevation = @ + dy * RotateSpeed(v)]

\* azimuth -= dx * k; elevation += dy * k; clamp elevation to [-89, 89]
rotate(v, cam, dx, dy) ==
    [cam EXCEPT !.azimuth = @ - dx * RotateSpeed(v),
                !.elevation = Max2(-890, Min(890, @ + dy * RotateSpeed(v)))]

\* math.cos and math.sin of an azimuth that is a multiple of 90 degrees
CosAz(az) ==
    CASE az % 3600 = 0 -> 1
      [] az % 3600 = 1800 -> -1
      [] OTHER -> 0

SinAz(az) ==
    CASE az % 3600 = 900 -> 1
      [] az % 3600 = 2700 -> -1
      [] OTHER -> 0

\* scale = distance * 0.002 (basic), distance * 0.001 (Qt): the displacement
\* of the target per pixel, in 1/1000000 unit, for a distance in 1/1000 unit
PanScale(v, cam) == IF v = "basic" THEN cam.distance * 2 ELSE cam.distance

\* a pan that adds the right vector instead of subtracting it
pan_along_right(v, cam, dx, dy) ==
    [cam EXCEPT !.target =
        << @[1] + CosAz(cam.azimuth) * dx * PanScale(v, cam),
           @[2] + dy * PanScale(v, cam),
           @[3] + (-SinAz(cam.azimuth)) * dx * PanScale(v, cam) >>]

\* target -= right * dx * scale (x and z); target.y += dy * scale
pan(v, cam, dx, dy) ==
    [cam EXCEPT !.target =
        << @[1] - CosAz(cam.azimuth) * dx * PanScale(v, cam),
           @[2] + dy * PanScale(v, cam),
           @[3] - (-SinAz(cam.azimuth)) * dx * PanScale(v, cam) >>]

\* max(lo, min(hi, distance)): [0.1, 100] (basic), [0.01, 10000] (Qt)
MinDistance(v) == IF v = "basic" THEN 100 ELSE 10

MaxDistance(v) == IF v = "basic" THEN 100000 ELSE 10000000

\* a zoom that forgets the clamp
zoom_unclamped(v, cam, d10) ==
    [cam EXCEPT !.distance = (@ * (100 - d10)) \div 100]

\* distance *= (1.0 - delta * 0.1), then the clamp; d10 is delta in tenths
zoom(v, cam, d10) ==
    [cam EXCEPT !.distance =
        Max2(MinDistance(v), Min(MaxDistance(v), (@ * (100 - d10)) \div 100))]

(***************************************************************************)
(* Render dispatch of the Qt viewers: paintGL, render_hydra,               *)
(* render_fallback.                                                        *)
(***************************************************************************)
Viewers == {"pyside6", "pyqt6"}

DrawModes == <<"shaded", "wireframe", "points">>

USD_HYDRA_AVAILABLE == usdLib /\ imagingLib

\* the draw mode is never forwarded
HydraDrawModeShadedOnly(mode) == "DRAW_SHADED_SMOOTH"

\* params.drawMode
HydraDrawMode(mode) ==
    CASE mode = "wireframe" -> "DRAW_WIREFRAME"
      [] mode = "points" -> "DRAW_POINTS"
      [] OTHER -> "DRAW_SHADED_SMOOTH"

\* the renderer calls of render_hydra, in order
HydraCalls(cam, mode, root) ==
    << [fn |-> "SetRenderViewport"],
       [fn |-> "SetCameraState", view |-> get_view_matrix(cam),
        proj |-> get_projection_matrix(cam)],
       [fn |-> "Render", root |-> root, drawMode |-> HydraDrawMode(mode)] >>

\* one prim of render_fallback: the draw it issues, if any
PrimitiveTypes == {"Cube", "Sphere", "Cylinder", "Cone", "Capsule"}

\* one draw reaching OpenGL: the prim, what is drawn, the polygon mode and
\* whether GL_LIGHTING is enabled while it is drawn
Draw(k, shape, polygon, lighting) ==
    [prim |-> k, shape |-> shape, polygon |-> polygon, lighting |-> lighting]

\* render_mesh: glPolygonMode by self.draw_mode, and no call for 'shaded':
\* the mesh is drawn in the mode pm the context is in
MeshPolygonMode(mode, pm) ==
    CASE mode = "wireframe" -> "GL_LINE"
      [] mode = "points" -> "GL_POINT"
      [] OTHER -> pm

\* usd_hydra_viewer.py: glEnable(GL_LIGHTING), then
\* if prim.IsA(UsdGeom.Mesh): self.render_mesh_simple(prim)
\* render_mesh_simple never calls glPolygonMode
FallbackPrimPySide(prims, k, pm) ==
    IF prims[k].type = "Mesh"
    THEN LET r == render_mesh_simple(prims[k].mesh)
         IN  [draws |-> IF r.drawn THEN <<Draw(k, "Mesh", pm, TRUE)>> ELSE <<>>,
              raised |-> r.raised,
              polygon |-> pm]
    ELSE [draws |-> <<>>, raised |-> FALSE, polygon |-> pm]

\* usd_hydra_viewer_pyqt6.py: lighting by self.enable_lighting, then
\* Mesh, Cube, Sphere, Cylinder, Cone, Capsule.  A mesh that returns early
\* touches no GL state; one that raises skips the glPolygonMode(GL_FILL) at
\* its end; the primitives are drawn in the mode the context is in
FallbackPrimPyQt(prims, k, pm) ==
    IF prims[k].type = "Mesh"
    THEN LET r == render_mesh(prims[k].mesh)
             mode == MeshPolygonMode(draw_mode, pm)
         IN  IF MeshDataMissing(prims[k].mesh)
             THEN [draws |-> <<>>, raised |-> FALSE, polygon |-> pm]
             ELSE [draws |-> IF r.drawn
                             THEN <<Draw(k, "Mesh", mode, enable_lighting)>>
                             ELSE <<>>,
                   raised |-> r.raised,
                   polygon |-> IF r.raised THEN mode ELSE "GL_FILL"]
    ELSE IF prims[k].type \in PrimitiveTypes
         THEN [draws |-> <<Draw(k, prims[k].type, pm, enable_lighting)>>,
               raised |-> FALSE, polygon |-> pm]
         ELSE [draws |-> <<>>, raised |-> FALSE, polygon |-> pm]

RECURSIVE FallbackLoop(_, _, _, _, _, _)
FallbackLoop(v, prims, order, i, acc, pm) ==
    IF i > Len(order)
    THEN [ran |-> TRUE, draws |-> acc, raised |-> FALSE, polygon |-> pm]
    ELSE LET d == IF v = "pyside6"
                  THEN FallbackPrimPySide(prims, order[i], pm)
                  ELSE FallbackPrimPyQt(prims, order[i], pm)
         IN  IF d.raised
             THEN [ran |-> TRUE, draws |-> acc \o d.draws, raised |-> TRUE,
                   polygon |-> d.polygon]
             ELSE FallbackLoop(v, prims, order, i + 1, acc \o d.draws, d.polygon)

\* no fallback pass: the polygon mode stays as it is
NoFallback == [ran |-> FALSE, draws |-> <<>>, raised |-> FALSE, polygon |-> "kept"]

render_fallback(v, stg) ==
    IF stg = "None"
    THEN NoFallback
    ELSE FallbackLoop(v, Scene(stg, v), Traverse(Scene(stg, v)), 1, <<>>, polygon_mode)

\* render_hydra: failAt says where the try block raises, if anywhere.
\* `except Exception` catches what the renderer raises, prints and calls
\* render_fallback inside the handler; what render_fallback raises there is
\* caught by nothing and leaves render_hydra (escaped)
render_hydra(v, stg, cam, mode, failAt) ==
    LET calls == IF failAt = "setup" THEN <<>> ELSE HydraCalls(cam, mode, stg)
        fb == IF failAt = "none" THEN NoFallback ELSE render_fallback(v, stg)
    IN  [hydra |-> IF failAt = "none" THEN "ok" ELSE "raised",
         calls |-> calls,
         printed |-> IF failAt = "none" THEN 0 ELSE 1,
         fallback |-> fb,
         escaped |-> fb.raised]

\* the scene part of paintGL: render_hydra and render_fallback are called
\* bare, so an exception that leaves either leaves paintGL
paintGL(v, stg, rend, cam, mode, failAt) ==
    IF stg # "None" /\ rend # "None" /\ USD_HYDRA_AVAILABLE
    THEN render_hydra(v, stg, cam, mode, failAt)
    ELSE LET fb == render_fallback(v, stg)
         IN  [hydra |-> "none", calls |-> <<>>, printed |-> 0,
              fallback |-> fb, escaped |-> fb.raised]

NoFrame ==
    [hydra |-> "none", calls |-> <<>>, printed |-> 0,
     fallback |-> NoFallback, escaped |-> FALSE, failedBefore |-> FALSE,
     polygonBefore |-> "GL_FILL"]

Op(name, arg, ret) == [name |-> name, arg |-> arg, ret |-> ret]

ViewInit ==
    /\ viewer \in Viewers
    /\ usdLib \in BOOLEAN
    /\ imagingLib \in BOOLEAN
    /\ imagingLib => usdLib
    /\ glReady = FALSE
    /\ renderer = "None"
    /\ stage = "None"
    /\ draw_mode = "shaded"
    /\ enable_lighting = TRUE
    /\ camera = NewCamera
    /\ frameNo = 0
    /\ frame = NoFrame
    /\ errLog = 0
    /\ hydraFailed = FALSE
    /\ lastOp = Op("construct", "-", "-")
    /\ nEvents = 0
    /\ mouse = NewMouse(viewer)
    /\ polygon_mode = "GL_FILL"
    /\ show_wireframe = FALSE

\* the viewport before any handler has run, for the triangulation runs
ViewIdle ==
    /\ viewer = "pyqt6"
    /\ usdLib = TRUE
    /\ imagingLib = TRUE
    /\ glReady = FALSE
    /\ renderer = "None"
    /\ stage = "None"
    /\ draw_mode = "shaded"
    /\ enable_lighting = TRUE
    /\ camera = NewCamera
    /\ frameNo = 0
    /\ frame = NoFrame
    /\ errLog = 0
    /\ hydraFailed = FALSE
    /\ lastOp = Op("construct", "-", "-")
    /\ nEvents = 0
    /\ mouse = NewMouse(viewer)
    /\ polygon_mode = "GL_FILL"
    /\ show_wireframe = FALSE

\* the main window's constructor creates the sample scene first
create_sample_stage ==
    /\ lastOp.name = "construct"
    /\ IF (viewer = "pyside6" /\ ~USD_HYDRA_AVAILABLE) \/ (viewer = "pyqt6" /\ ~usdLib)
       THEN UNCHANGED <<stage, camera>>
       ELSE /\ stage' = "sample"
            /\ camera' = frame_bounds(camera, <<-5, 0, -5>>, <<5, 3, 5>>)
    /\ lastOp' = Op("create_sample_stage", "-", "None")
    /\ UNCHANGED <<viewer, usdLib, imagingLib, glReady, renderer, draw_mode,
                   enable_lighting, frameNo, frame, errLog, hydraFailed, nEvents, mouse,
                   polygon_mode, show_wireframe>>
    /\ UNCHANGED triVars

\* where the try block of load_stage raises after the stage has opened:
\* in BBoxCache.ComputeWorldBound, in renderer.SetRenderViewport, or nowhere
LoadFailures == {"none", "bbox", "viewport"}

\* the loads tried: every file without a later failure, one file with each
Loads ==
    { <<f, "none">> : f \in Files } \cup { <<"group.usda", a>> : a \in LoadFailures }

\* the files of the render runs: huge.usda and point.usda differ from the
\* others in their bounds alone
RenderFiles == Files \ {"huge.usda", "point.usda"}

\* load_stage: self.stage is assigned on the first line of the try block, so
\* a stage that is null and an error raised later both return False with
\* self.stage already replaced
load_stage(f, failAt) ==
    /\ lastOp.name # "construct"
    /\ IF (viewer = "pyside6" /\ ~USD_HYDRA_AVAILABLE) \/ (viewer = "pyqt6" /\ ~usdLib)
       THEN /\ failAt = "none"
            /\ UNCHANGED <<stage, camera>>
            /\ lastOp' = Op("load_stage", f, "False")
       ELSE CASE FileOpen(f) = "raise" ->
                   /\ failAt = "none"
                   /\ UNCHANGED <<stage, camera>>
                   /\ lastOp' = Op("load_stage", f, "False")
              [] FileOpen(f) = "null" ->
                   /\ failAt = "none"
                   /\ stage' = "None"
                   /\ UNCHANGED camera
                   /\ lastOp' = Op("load_stage", f, "False")
              [] OTHER ->
                   /\ failAt = "viewport" => renderer # "None"
                   /\ stage' = f
                   /\ camera' = IF FileBBox(f).empty \/ failAt = "bbox"
                                THEN camera
                                ELSE frame_bounds(camera, FileBBox(f).min, FileBBox(f).max)
                   /\ lastOp' = Op("load_stage", f,
                                   IF failAt = "none" THEN "True" ELSE "False")
    /\ UNCHANGED <<viewer, usdLib, imagingLib, glReady, renderer, draw_mode,
                   enable_lighting, frameNo, frame, errLog, hydraFailed, nEvents, mouse,
                   polygon_mode, show_wireframe>>
    /\ UNCHANGED triVars

\* initializeGL: UsdImagingGL.Engine() may raise
initializeGL(engineOk) ==
    /\ lastOp.name # "construct"
    /\ ~glReady
    /\ glReady' = TRUE
    /\ renderer' = IF USD_HYDRA_AVAILABLE /\ engineOk THEN "Engine" ELSE "None"
    /\ hydraFailed' = (hydraFailed \/ (USD_HYDRA_AVAILABLE /\ ~engineOk))
    /\ lastOp' = Op("initializeGL", "-", "None")
    /\ UNCHANGED <<viewer, usdLib, imagingLib, stage, draw_mode, enable_lighting,
                   camera, frameNo, frame, errLog, nEvents, mouse,
                   polygon_mode, show_wireframe>>
    /\ UNCHANGED triVars

\* paintGL: one frame.  lastOp.ret is "raised" when an exception leaves
\* paintGL, "None" when it returns
PaintGL(failAt) ==
    /\ glReady
    /\ frameNo < MaxFrames
    /\ frame' = paintGL(viewer, stage, renderer, camera, draw_mode, failAt)
                 @@ [failedBefore |-> hydraFailed, polygonBefore |-> polygon_mode]
    /\ errLog' = errLog + frame'.printed
    /\ hydraFailed' = (hydraFailed \/ frame'.hydra = "raised")
    /\ frameNo' = frameNo + 1
    /\ polygon_mode' = IF frame'.fallback.ran
                       THEN frame'.fallback.polygon
                       ELSE polygon_mode
    /\ lastOp' = Op("paintGL", "-", IF frame'.escaped THEN "raised" ELSE "None")
    /\ UNCHANGED <<viewer, usdLib, imagingLib, glReady, renderer, stage,
                   draw_mode, enable_lighting, camera, nEvents, mouse,
                   show_wireframe>>
    /\ UNCHANGED triVars

\* keyPressEvent, Key_W: cycle shaded -> wireframe -> points
NextDrawMode(mode) ==
    LET idx == CHOOSE i \in 1..Len(DrawModes) : DrawModes[i] = mode
    IN  DrawModes[(idx % Len(DrawModes)) + 1]

KeyW ==
    /\ lastOp.name # "construct"
    /\ draw_mode' = NextDrawMode(draw_mode)
    /\ lastOp' = Op("keyPressEvent", "W", "None")
    /\ UNCHANGED <<viewer, usdLib, imagingLib, glReady, renderer, stage, camera,
                   enable_lighting, frameNo, frame, errLog, hydraFailed, nEvents, mouse,
                   polygon_mode, show_wireframe>>
    /\ UNCHANGED triVars

\* a text of the toolbar's combo box, and one it does not know
ModeTexts == {"Points", "Solid"}

\* mode_map.get(text, "shaded")
ModeOfText(text) ==
    CASE text = "Wireframe" -> "wireframe"
      [] text = "Points" -> "points"
      [] OTHER -> "shaded"

\* the main window's slot on_draw_mode_changed
on_draw_mode_changed(text) ==
    /\ lastOp.name # "construct"
    /\ draw_mode' = ModeOfText(text)
    /\ lastOp' = Op("on_draw_mode_changed", text, "None")
    /\ UNCHANGED <<viewer, usdLib, imagingLib, glReady, renderer, stage, camera,
                   enable_lighting, frameNo, frame, errLog, hydraFailed, nEvents, mouse,
                   polygon_mode, show_wireframe>>
    /\ UNCHANGED triVars

\* keyPressEvent, Key_L
KeyL ==
    /\ lastOp.name # "construct"
    /\ enable_lighting' = ~enable_lighting
    /\ lastOp' = Op("keyPressEvent", "L", "None")
    /\ UNCHANGED <<viewer, usdLib, imagingLib, glReady, renderer, stage, camera,
                   draw_mode, frameNo, frame, errLog, hydraFailed, nEvents, mouse,
                   polygon_mode, show_wireframe>>
    /\ UNCHANGED triVars

\* the values of the check box's stateChanged(int): Unchecked, Checked
CheckStates == {0, 2}

\* the main window's slot on_lighting_changed: enable_lighting = (state ==
\* Qt.Checked) in the PySide6 viewer, (state == Qt.CheckState.Checked.value)
\* in the PyQt6 viewer.  Qt.Checked equals the int 2 only under bindings
\* whose enums are ints (enumIsInt); under Python enums it equals no int.
\* Checked.value is always 2.
on_lighting_changed(state, enumIsInt) ==
    /\ lastOp.name # "construct"
    /\ (viewer = "pyqt6" => enumIsInt)
    /\ enable_lighting' = (state = 2 /\ enumIsInt)
    /\ lastOp' = Op("on_lighting_changed", state, "None")
    /\ UNCHANGED <<viewer, usdLib, imagingLib, glReady, renderer, stage, camera,
                   draw_mode, frameNo, frame, errLog, hydraFailed, nEvents, mouse,
                   polygon_mode, show_wireframe>>
    /\ UNCHANGED triVars

Next ==
    \/ create_sample_stage
    \/ \E l \in Loads : l[1] \in RenderFiles /\ load_stage(l[1], l[2])
    \/ \E engineOk \in BOOLEAN : initializeGL(engineOk)
    \/ \E failAt \in {"none", "setup", "render"} : PaintGL(failAt)
    \/ KeyW
    \/ \E text \in ModeTexts : on_draw_mode_changed(text)
    \/ KeyL
    \/ \E state \in CheckStates, enumIsInt \in BOOLEAN :
           on_lighting_changed(state, enumIsInt)

Init ==
    /\ ViewInit
    /\ meshIn = NoMesh
    /\ triOut = [op |-> "none", drawn |-> FALSE, raised |-> FALSE,
                 tris |-> <<>>, normals |-> <<>>]

Spec == Init /\ [][Next]_vars

(***************************************************************************)
(* Triangulation of one mesh prim by each of the three viewers.            *)
(***************************************************************************)
NoOut == [op |-> "none", drawn |-> FALSE, raised |-> FALSE,
          tris |-> <<>>, normals |-> <<>>]

TriInit ==
    /\ meshIn \in MeshInputs
    /\ triOut = NoOut
    /\ ViewIdle

\* load_usd_file, one mesh prim: mesh = extract_mesh_from_prim(prim);
\* if mesh: meshes.append(mesh).  An exception abandons the whole load.
BasicLoadMesh ==
    /\ LET m == extract_mesh_from_prim(meshIn)
       IN  triOut' = [op |-> "basic",
                      drawn |-> ~m.raised /\ MeshTruthy(m),
                      raised |-> m.raised,
                      tris |-> IF m.raised THEN <<>> ELSE m.faces,
                      normals |-> m.normals]
    /\ UNCHANGED meshIn
    /\ UNCHANGED viewVars

QtDraw(op, r) ==
    [op |-> op, drawn |-> r.drawn, raised |-> r.raised,
     tris |-> [t \in 1..Len(r.tris) |-> r.tris[t].p],
     normals |-> [t \in 1..Len(r.tris) |-> r.tris[t].n]]

PySideRenderMesh ==
    /\ triOut' = QtDraw("pyside6", render_mesh_simple(meshIn))
    /\ UNCHANGED meshIn
    /\ UNCHANGED viewVars

PyQtRenderMesh ==
    /\ triOut' = QtDraw("pyqt6", render_mesh(meshIn))
    /\ UNCHANGED meshIn
    /\ UNCHANGED viewVars

TriNext == BasicLoadMesh \/ PySideRenderMesh \/ PyQtRenderMesh

SpecTri == TriInit /\ [][TriNext]_vars

(***************************************************************************)
(* usd_basic_viewer.py: the mesh list, its bounds and transforms.  Mesh    *)
(* vertices are in 1/1000 of a scene unit; a matrix is a sequence of four  *)
(* rows.                                                                   *)
(***************************************************************************)
Identity4 == << <<1, 0, 0, 0>>, <<0, 1, 0, 0>>, <<0, 0, 1, 0>>, <<0, 0, 0, 1>> >>

Transpose4(m) == [i \in 1..4 |-> [j \in 1..4 |-> m[j][i]]]

\* a Gf.Matrix4d translation: USD multiplies row vectors, the offset is the
\* last row
UsdTranslate(t) ==
    << <<1, 0, 0, 0>>, <<0, 1, 0, 0>>, <<0, 0, 1, 0>>, <<t[1], t[2], t[3], 1>> >>

\* xformable.ComputeLocalToWorldTransform of the k-th prim of a scene
WorldTransform(name, k) ==
    IF name = "group.usda" THEN UsdTranslate(<<2, 0, 0>>) ELSE Identity4

\* the 8 corners of a centered cube, in the order both viewers list them
CubeCorners(half) ==
    << <<-half, -half, -half>>, <<half, -half, -half>>, <<half, half, -half>>,
       <<-half, half, -half>>, <<-half, -half, half>>, <<half, -half, half>>,
       <<half, half, half>>, <<-half, half, half>> >>

\* create_sample_cube: mesh.faces
SampleCubeFaces ==
    << <<0, 1, 2>>, <<0, 2, 3>>, <<4, 6, 5>>, <<4, 7, 6>>,
       <<0, 4, 5>>, <<0, 5, 1>>, <<2, 6, 7>>, <<2, 7, 3>>,
       <<0, 3, 7>>, <<0, 7, 4>>, <<1, 5, 6>>, <<1, 6, 2>> >>

\* render_cube: faces, four corners and the normal passed to glNormal3f
CubeQuads ==
    << [corners |-> <<0, 1, 2, 3>>, normal |-> <<0, 0, -1>>],
       [corners |-> <<4, 7, 6, 5>>, normal |-> <<0, 0, 1>>],
       [corners |-> <<0, 3, 7, 4>>, normal |-> <<-1, 0, 0>>],
       [corners |-> <<1, 5, 6, 2>>, normal |-> <<1, 0, 0>>],
       [corners |-> <<0, 4, 5, 1>>, normal |-> <<0, -1, 0>>],
       [corners |-> <<3, 2, 6, 7>>, normal |-> <<0, 1, 0>>] >>

\* GL_QUADS: every four vertices are one quad, rasterised as the triangles
\* (0, 1, 2) and (0, 2, 3) under the normal current at its vertices
QuadTriangles(quads) ==
    [t \in 1..(2 * Len(quads)) |->
        LET q == quads[(t + 1) \div 2]
        IN  [idx |-> IF t % 2 = 1
                     THEN <<q.corners[1], q.corners[2], q.corners[3]>>
                     ELSE <<q.corners[1], q.corners[3], q.corners[4]>>,
             n |-> [v |-> q.normal, d2 |-> 1]]]

\* create_sample_cube, with the corners in units of 0.5: the triangles and
\* the normals compute_normals gives them
SampleCubeTriangles ==
    LET cn == compute_normals(CubeCorners(1), SampleCubeFaces)
    IN  [t \in 1..Len(SampleCubeFaces) |->
            [idx |-> SampleCubeFaces[t], n |-> cn.normals[t]]]

\* create_sample_cube
SampleCube ==
    [name |-> "sample_cube",
     vertices |-> << <<-500, -500, -500>>, <<500, -500, -500>>, <<500, 500, -500>>,
                     <<-500, 500, -500>>, <<-500, -500, 500>>, <<500, -500, 500>>,
                     <<500, 500, 500>>, <<-500, 500, 500>> >>,
     transform |-> Identity4]

\* the exact sine of a multiple of 90 degrees
SinDeg(d) == SinAz(10 * d)

(***************************************************************************)
(* The doubles of create_sample_sphere.  math.pi is a rounded pi, so        *)
(* math.cos(math.pi / 2) is not 0 but 6.123e-17, math.sin(math.pi) is twice *)
(* that, and so on.  A double is kept as b + e * cos(pi/2) + u * 2^-53: b   *)
(* is its integer part, e counts the trigonometric remainders and u the     *)
(* rounding steps of sums and products next to an integer.  Terms below     *)
(* 1e-31 (products of two remainders) are dropped: on the angles kept here  *)
(* they are never the largest component of a cross product.                 *)
(***************************************************************************)
Fl(b, e, u) == [b |-> b, e |-> e, u |-> u]

\* math.cos(math.pi / 2) / 2^-53 = 0.551532, in millionths
DeltaUlps == 551532

\* the largest power of two that is at most a, for a >= 1
RECURSIVE Pow2Below(_)
Pow2Below(a) == IF a < 2 THEN 1 ELSE 2 * Pow2Below(a \div 2)

\* the spacing, in units of 2^-53, of the doubles where b + t lies, for an
\* integer b # 0 and a remainder t: 2^-53 just below 1, 2^-52 from 1 to 2,
\* 2^-51 from 2 to 4, ...
FlSpacing(b, t) ==
    LET a == IF b < 0 THEN -b ELSE b
        towardZero == (b > 0 /\ t < 0) \/ (b < 0 /\ t > 0)
    IN  IF a = Pow2Below(a) /\ towardZero THEN a ELSE 2 * Pow2Below(a)

\* the double nearest to b + e * cos(pi/2) + u * 2^-53, ties to even: next
\* to an integer b # 0 the remainder is rounded to the spacing there
FlRound(b, e, u) ==
    IF b = 0 \/ (e = 0 /\ u = 0)
    THEN Fl(b, e, u)
    ELSE LET t == e * DeltaUlps + u * 1000000
             g == FlSpacing(b, t)
             k0 == (2 * t + g * 1000000) \div (2 * g * 1000000)
             k == IF (2 * t + g * 1000000) % (2 * g * 1000000) = 0 /\ k0 % 2 = 1
                  THEN k0 - 1 ELSE k0
         IN  Fl(b, 0, k * g)

\* x - y of two doubles
FlSub(x, y) == FlRound(x.b - y.b, x.e - y.e, x.u - y.u)

\* x * y of two doubles
FlMul(x, y) ==
    FlRound(x.b * y.b, x.b * y.e + y.b * x.e, x.b * y.u + y.b * x.u)

\* math.sin of the double of a multiple of 90 degrees
math_sin(deg) ==
    CASE deg = 0 -> Fl(0, 0, 0)
      [] deg = 90 -> Fl(1, 0, 0)
      [] deg = 180 -> Fl(0, 2, 0)
      [] deg = 270 -> Fl(-1, 0, 0)
      [] deg = 360 -> Fl(0, -4, 0)

\* math.cos of the double of a multiple of 90 degrees
math_cos(deg) ==
    CASE deg = 0 -> Fl(1, 0, 0)
      [] deg = 90 -> Fl(0, 1, 0)
      [] deg = 180 -> Fl(-1, 0, 0)
      [] deg = 270 -> Fl(0, -3, 0)
      [] deg = 360 -> Fl(1, 0, 0)

\* create_sample_sphere: the vertex of ring i, segment j, for phi = pi * i /
\* rings and theta = 2 * pi * j / segments that are multiples of 90 degrees
SphereVertexAt(radius, segments, rings, i, j) ==
    LET phi == (180 * i) \div rings
        theta == (360 * j) \div segments
        r == Fl(radius, 0, 0)
    IN  << FlMul(FlMul(r, math_sin(phi)), math_cos(theta)),
           FlMul(r, math_cos(phi)),
           FlMul(FlMul(r, math_sin(phi)), math_sin(theta)) >>

\* np.cross(edge1, edge2) on doubles
FlCross(a, b) ==
    << FlSub(FlMul(a[2], b[3]), FlMul(a[3], b[2])),
       FlSub(FlMul(a[3], b[1]), FlMul(a[1], b[3])),
       FlSub(FlMul(a[1], b[2]), FlMul(a[2], b[1])) >>

\* compute_normals on doubles: normal / length if length > 0, else (0, 1, 0).
\* The normal [v, d2, ulps] is the unit vector along
\* v + ulps * (2^-53 / cos(pi/2)); with ulps zero that is v / sqrt(d2).  A
\* cross product with an integer part is that part to within 1e-15; one
\* made of remainders alone is not zero, and is normalised like any other.
FlNormal(c) ==
    LET int == <<c[1].b, c[2].b, c[3].b>>
        rem == <<c[1].e, c[2].e, c[3].e>>
        ulps == <<c[1].u, c[2].u, c[3].u>>
        zero == <<0, 0, 0>>
        v == IF int # zero THEN int
             ELSE IF rem # zero THEN rem
             ELSE IF ulps # zero THEN ulps
             ELSE <<0, 1, 0>>
    IN  [v |-> v, d2 |-> Dot(v, v),
         ulps |-> IF int = zero /\ rem # zero THEN ulps ELSE zero]

\* compute_normals on the vertices of create_sample_sphere
compute_normals_fl(vertices, faces) ==
    [t \in 1..Len(faces) |->
        LET v0 == vertices[faces[t][1] + 1]
            v1 == vertices[faces[t][2] + 1]
            v2 == vertices[faces[t][3] + 1]
            edge1 == <<FlSub(v1[1], v0[1]), FlSub(v1[2], v0[2]), FlSub(v1[3], v0[3])>>
            edge2 == <<FlSub(v2[1], v0[1]), FlSub(v2[2], v0[2]), FlSub(v2[3], v0[3])>>
        IN  FlNormal(FlCross(edge1, edge2))]

\* create_sample_sphere: [v0, v2, v1] and [v0, v3, v2] of the quad (i, j)
SphereQuadFaces(segments, i, j) ==
    LET next_j == (j + 1) % segments
        v0 == i * segments + j
        v1 == i * segments + next_j
        v2 == (i + 1) * segments + next_j
        v3 == (i + 1) * segments + j
    IN  << <<v0, v2, v1>>, <<v0, v3, v2>> >>

\* create_sample_sphere(radius, segments, rings): a vertex is vertices[k] +
\* residue[k] * cos(pi/2), e.g. the south pole of segment 0 is
\* (1.2e-16, -1, 0) for radius 1
create_sample_sphere(radius, segments, rings) ==
    LET vertices == [k \in 1..((rings + 1) * segments) |->
                       SphereVertexAt(radius, segments, rings,
                                      (k - 1) \div segments, (k - 1) % segments)]
        faces == [f \in 1..(2 * rings * segments) |->
                    SphereQuadFaces(segments, ((f - 1) \div 2) \div segments,
                                    ((f - 1) \div 2) % segments)[((f - 1) % 2) + 1]]
    IN  [raised |-> FALSE,
         vertices |-> [k \in 1..Len(vertices) |->
                         <<vertices[k][1].b, vertices[k][2].b, vertices[k][3].b>>],
         residue |-> [k \in 1..Len(vertices) |->
                        <<vertices[k][1].e, vertices[k][2].e, vertices[k][3].e>>],
         faces |-> faces,
         normals |-> compute_normals_fl(vertices, faces)]

\* create_sample_sphere, radius 1: of its ring vertices only the poles and the
\* four axis points of the equator are kept; all others lie between them
SampleSphere ==
    [name |-> "sample_sphere",
     vertices |-> << <<0, 1000, 0>>, <<1000, 0, 0>>, <<0, 0, 1000>>,
                     <<-1000, 0, 0>>, <<0, 0, -1000>>, <<0, -1000, 0>> >>,
     transform |-> Identity4]

\* the Mesh extract_mesh_from_prim returns: mesh.transform = np.array(world).T
ExtractedMesh(name, k, m) ==
    [name |-> name,
     vertices |-> [i \in 1..Len(m.vertices) |->
                     <<m.vertices[i][1] * 1000, m.vertices[i][2] * 1000,
                       m.vertices[i][3] * 1000>>],
     transform |-> Transpose4(WorldTransform(name, k))]

\* the Mesh prims of a scene, in traversal order
MeshPrims(prims) == SelectSeq(Traverse(prims), LAMBDA k : prims[k].type = "Mesh")

\* load_usd_file without its `if not meshes` branch
load_usd_file_found_only(f) ==
    IF ~usdLib
    THEN <<SampleCube, SampleSphere>>
    ELSE IF FileOpen(f) # "ok"
         THEN <<SampleCube>>
         ELSE LET prims == Scene(f, "basic")
                  ks == MeshPrims(prims)
              IN  IF \E i \in 1..Len(ks) : extract_mesh_from_prim(prims[ks[i]].mesh).raised
                  THEN <<SampleCube>>
                  ELSE [i \in 1..Len(ks) |->
                          ExtractedMesh(f, ks[i],
                                        extract_mesh_from_prim(prims[ks[i]].mesh))]

\* load_usd_file: any exception, a stage that does not open and a stage
\* without meshes all give the sample cube alone
load_usd_file(f) ==
    IF ~usdLib
    THEN <<SampleCube, SampleSphere>>
    ELSE IF FileOpen(f) # "ok"
         THEN <<SampleCube>>
         ELSE LET prims == Scene(f, "basic")
                  ks == MeshPrims(prims)
              IN  IF \E i \in 1..Len(ks) : extract_mesh_from_prim(prims[ks[i]].mesh).raised
                  THEN <<SampleCube>>
                  ELSE IF ks = <<>>
                       THEN <<SampleCube>>
                       ELSE [i \in 1..Len(ks) |->
                               ExtractedMesh(f, ks[i],
                                             extract_mesh_from_prim(prims[ks[i]].mesh))]

\* Path(filepath).exists()
FileExists(f) == f \in Files /\ f # "missing.usda"

\* load_meshes: without a file, the two samples, the sphere moved by
\* self.meshes[1].transform[3, 0] = 2.0
load_meshes(f) ==
    IF FileExists(f)
    THEN load_usd_file(f)
    ELSE <<SampleCube, [SampleSphere EXCEPT !.transform[4][1] = 2]>>

\* Mesh.get_bounds
get_bounds(mesh) ==
    IF mesh.vertices = <<>>
    THEN [min |-> <<0, 0, 0>>, max |-> <<1000, 1000, 1000>>]
    ELSE LET N == 1..Len(mesh.vertices)
         IN  [min |-> [c \in 1..3 |->
                         CHOOSE x \in {mesh.vertices[i][c] : i \in N} :
                             \A i \in N : x <= mesh.vertices[i][c]],
              max |-> [c \in 1..3 |->
                         CHOOSE x \in {mesh.vertices[i][c] : i \in N} :
                             \A i \in N : x >= mesh.vertices[i][c]]]

\* fit_camera_to_scene: target = center, distance = size * 2.0
fit_camera_to_scene(cam, meshes) ==
    IF meshes = <<>>
    THEN cam
    ELSE LET N == 1..Len(meshes)
             lo == [c \in 1..3 |->
                      CHOOSE x \in {get_bounds(meshes[i]).min[c] : i \in N} :
                          \A i \in N : x <= get_bounds(meshes[i]).min[c]]
             hi == [c \in 1..3 |->
                      CHOOSE x \in {get_bounds(meshes[i]).max[c] : i \in N} :
                          \A i \in N : x >= get_bounds(meshes[i]).max[c]]
             size == Max2(hi[1] - lo[1], Max2(hi[2] - lo[2], hi[3] - lo[3]))
         IN  [cam EXCEPT
                !.target = [c \in 1..3 |-> (lo[c] + hi[c]) * 500],
                !.distance = size * 2]

\* the 16 floats of a numpy matrix, row by row
Flatten(m) == [n \in 1..16 |-> m[((n - 1) \div 4) + 1][((n - 1) % 4) + 1]]

\* glMultMatrixf reads its 16 floats column by column
GLMatrix(flat) == [r \in 1..4 |-> [c \in 1..4 |-> flat[(c - 1) * 4 + r]]]

\* Mesh.render: glMultMatrixf(self.transform.T.flatten())
MeshRenderMatrix(mesh) == GLMatrix(Flatten(Transpose4(mesh.transform)))

(***************************************************************************)
(* The orbit camera under input events, in each of the three viewers.      *)
(***************************************************************************)
\* pixels of horizontal drag that turn the camera by 45 degrees
EighthTurn(v) == IF v = "basic" THEN 90 ELSE 150

\* drags: horizontal in eighth turns, vertical in pixels
RotateDrags == { <<1, 0>>, <<-1, 0>>, <<0, 1000>>, <<0, -1000>> }

PanDrags == { <<10, 0>>, <<-10, -10>> }

\* wheel and drag deltas, in tenths
ZoomDeltas == {-100, 10, 150}

\* the product is a whole number of 1/1000 units
ZoomExact(cam, d10) == (cam.distance * (100 - d10)) % 100 = 0

CamInit ==
    /\ viewer \in AllViewers
    /\ usdLib \in BOOLEAN
    /\ imagingLib = usdLib
    /\ glReady = FALSE
    /\ renderer = "None"
    /\ stage = "None"
    /\ draw_mode = "shaded"
    /\ enable_lighting = TRUE
    /\ camera = IF viewer = "basic" THEN NewBasicCamera ELSE NewCamera
    /\ frameNo = 0
    /\ frame = NoFrame
    /\ errLog = 0
    /\ hydraFailed = FALSE
    /\ lastOp = Op("construct", "-", "-")
    /\ nEvents = 0
    /\ mouse = NewMouse(viewer)
    /\ polygon_mode = "GL_FILL"
    /\ show_wireframe = FALSE
    /\ meshIn = NoMesh
    /\ triOut = NoOut

CamUnchanged ==
    UNCHANGED <<meshIn, triOut, viewer, usdLib, imagingLib, glReady, renderer,
                draw_mode, enable_lighting, frameNo, errLog, hydraFailed>>

\* USDBasicViewer.run: load_meshes(filepath), which ends in fit_camera_to_scene
BasicRun(f) ==
    /\ viewer = "basic"
    /\ lastOp.name = "construct"
    /\ stage' = f
    /\ camera' = fit_camera_to_scene(camera, load_meshes(f))
    /\ lastOp' = Op("load_meshes", f, "None")
    /\ UNCHANGED <<frame, nEvents, mouse>>
    /\ CamUnchanged
    /\ UNCHANGED <<polygon_mode, show_wireframe>>

\* the mesh.render calls of one frame, as mesh indices: each mesh filled,
\* and once more as wireframe when self.show_wireframe is set
RenderPasses(n, wireframe) ==
    IF wireframe
    THEN [i \in 1..(2 * n) |-> (i + 1) \div 2]
    ELSE [i \in 1..n |-> i]

\* USDBasicViewer.render: one glMultMatrixf per mesh.render
BasicRender ==
    /\ viewer = "basic"
    /\ lastOp.name # "construct"
    /\ frame' = LET ms == load_meshes(stage)
                    passes == RenderPasses(Len(ms), show_wireframe)
                IN  [mesh |-> passes,
                     matrices |-> [i \in 1..Len(passes) |->
                                     MeshRenderMatrix(ms[passes[i]])]]
    /\ lastOp' = Op("render", "-", "None")
    /\ UNCHANGED <<stage, camera, nEvents, mouse>>
    /\ CamUnchanged
    /\ UNCHANGED <<polygon_mode, show_wireframe>>

\* key R: self.camera = Camera(); self.fit_camera_to_scene()
BasicKeyR ==
    /\ viewer = "basic"
    /\ lastOp.name # "construct"
    /\ nEvents < MaxEvents
    /\ camera' = fit_camera_to_scene(NewBasicCamera, load_meshes(stage))
    /\ lastOp' = Op("reset", [before |-> camera], "None")
    /\ nEvents' = nEvents + 1
    /\ mouse' = [NewMouse(viewer) EXCEPT !.held = mouse.held]
    /\ UNCHANGED <<stage, frame>>
    /\ CamUnchanged
    /\ UNCHANGED <<polygon_mode, show_wireframe>>

\* key W: self.show_wireframe = not self.show_wireframe
BasicKeyW ==
    /\ viewer = "basic"
    /\ lastOp.name # "construct"
    /\ nEvents < MaxEvents
    /\ show_wireframe' = ~show_wireframe
    /\ lastOp' = Op("key_callback", "W", "None")
    /\ nEvents' = nEvents + 1
    /\ UNCHANGED <<stage, camera, frame, mouse, polygon_mode>>
    /\ CamUnchanged

QtCreateSampleStage == viewer # "basic" /\ create_sample_stage

QtLoadStage(f, failAt) == viewer # "basic" /\ load_stage(f, failAt)

\* key F reaches BBoxCache.ComputeWorldBound: if self.stage (and
\* USD_HYDRA_AVAILABLE, in the PySide6 viewer)
KeyFComputes ==
    /\ stage # "None"
    /\ (viewer = "pyside6" => USD_HYDRA_AVAILABLE)

\* key F: frame the stage's world bound, when it is not empty.  When
\* ComputeWorldBound raises (bboxFails) the camera is left as it is: the
\* PyQt6 viewer swallows the exception (except: pass) and goes on to
\* update(), the PySide6 viewer has no try and the exception leaves
\* keyPressEvent.
QtKeyF(bboxFails) ==
    /\ viewer # "basic"
    /\ lastOp.name # "construct"
    /\ nEvents < MaxEvents
    /\ bboxFails => KeyFComputes
    /\ camera' = IF KeyFComputes /\ ~bboxFails /\ ~FileBBox(stage).empty
                 THEN frame_bounds(camera, FileBBox(stage).min, FileBBox(stage).max)
                 ELSE camera
    /\ lastOp' = Op("frame", [before |-> camera, bboxFails |-> bboxFails],
                    IF bboxFails /\ viewer = "pyside6" THEN "raised" ELSE "None")
    /\ nEvents' = nEvents + 1
    /\ UNCHANGED mouse
    /\ UNCHANGED <<stage, frame>>
    /\ CamUnchanged
    /\ UNCHANGED <<polygon_mode, show_wireframe>>

\* the cursor position of a button press
PressPositions == { <<200, 100>> }

\* the basic viewer installs its callbacks in run(), after load_meshes
MouseReady == viewer = "basic" => lastOp.name # "construct"

MouseUnchanged ==
    UNCHANGED <<meshIn, triOut, viewer, usdLib, imagingLib, glReady, renderer,
                stage, draw_mode, enable_lighting, frameNo, frame, errLog,
                hydraFailed>>

\* mouse_button_callback with glfw.PRESS, mousePressEvent: the Qt viewers
\* have no flag for the middle button
MousePress(b, pos) ==
    /\ MouseReady
    /\ b \notin mouse.held
    /\ mouse' = [held |-> mouse.held \cup {b},
                 rotating |-> (mouse.rotating \/ b = "left"),
                 panning |-> (mouse.panning \/ b = "right"),
                 zooming |-> (mouse.zooming \/ (viewer = "basic" /\ b = "middle")),
                 last |-> pos]
    /\ lastOp' = Op("mousePress", [button |-> b, pos |-> pos, before |-> camera], "None")
    /\ UNCHANGED <<camera, nEvents>>
    /\ MouseUnchanged
    /\ UNCHANGED <<polygon_mode, show_wireframe>>

\* mouse_button_callback with glfw.RELEASE, mouseReleaseEvent: every flag is
\* cleared, whichever button is released
MouseRelease(b) ==
    /\ MouseReady
    /\ b \in mouse.held
    /\ mouse' = [mouse EXCEPT !.held = @ \ {b},
                              !.rotating = FALSE,
                              !.panning = FALSE,
                              !.zooming = FALSE]
    /\ lastOp' = Op("mouseRelease", [button |-> b, before |-> camera], "None")
    /\ UNCHANGED <<camera, nEvents>>
    /\ MouseUnchanged
    /\ UNCHANGED <<polygon_mode, show_wireframe>>

\* `if not self.camera.last_pos: return`: None and the null point (0, 0) are
\* both falsy; the basic viewer has no such test
LastPosFalsy(v, m) == v # "basic" /\ (m.last = "None" \/ m.last = <<0, 0>>)

\* the camera method a cursor move reaches: rotate, elif pan, elif (basic)
\* zoom, or none of them
MoveBranch(v, m) ==
    IF LastPosFalsy(v, m) THEN "mouseMove"
    ELSE IF m.rotating THEN "rotate"
    ELSE IF m.panning THEN "pan"
    ELSE IF m.zooming THEN "zoom"
    ELSE "mouseMove"

\* what a cursor move does to the camera: zoom(dy * 0.1) has d10 = dy
MoveCamera(v, cam, m, dx, dy) ==
    CASE MoveBranch(v, m) = "rotate" -> rotate(v, cam, dx, dy)
      [] MoveBranch(v, m) = "pan" -> pan(v, cam, dx, dy)
      [] MoveBranch(v, m) = "zoom" -> zoom(v, cam, dy)
      [] OTHER -> cam

\* the cursor moves tried in each branch, as (dx, dy) in pixels
MoveDeltas(v, m) ==
    CASE MoveBranch(v, m) = "rotate" ->
            { <<d[1] * EighthTurn(v), d[2]>> : d \in RotateDrags }
      [] MoveBranch(v, m) = "pan" -> PanDrags
      [] MoveBranch(v, m) = "zoom" -> { <<0, 10>>, <<0, -10>> }
      [] OTHER -> { <<10, 0>> }

\* cursor_pos_callback, mouseMoveEvent: a move of the cursor by (dx, dy)
MouseMove(dx, dy) ==
    /\ MouseReady
    /\ nEvents < MaxEvents
    /\ <<dx, dy>> \in MoveDeltas(viewer, mouse)
    /\ MoveBranch(viewer, mouse) = "pan" => camera.azimuth % 900 = 0
    /\ MoveBranch(viewer, mouse) = "zoom" => ZoomExact(camera, dy)
    /\ camera' = MoveCamera(viewer, camera, mouse, dx, dy)
    /\ mouse' = IF LastPosFalsy(viewer, mouse)
                THEN mouse
                ELSE [mouse EXCEPT !.last = <<@[1] + dx, @[2] + dy>>]
    /\ lastOp' = Op(MoveBranch(viewer, mouse),
                    [dx |-> dx, dy |-> dy, d10 |-> dy, by |-> "move",
                     before |-> camera], "None")
    /\ nEvents' = nEvents + 1
    /\ UNCHANGED <<stage, frame>>
    /\ CamUnchanged
    /\ UNCHANGED <<polygon_mode, show_wireframe>>

\* every cursor move any branch tries
AllMoves(v) ==
    { <<d[1] * EighthTurn(v), d[2]>> : d \in RotateDrags } \cup PanDrags
        \cup { <<0, 10>>, <<0, -10>> }

\* scroll_callback, wheelEvent: a wheel turn
CamZoom(d10) ==
    /\ lastOp.name # "construct"
    /\ nEvents < MaxEvents
    /\ ZoomExact(camera, d10)
    /\ camera' = zoom(viewer, camera, d10)
    /\ lastOp' = Op("zoom", [d10 |-> d10, by |-> "wheel", before |-> camera], "None")
    /\ nEvents' = nEvents + 1
    /\ UNCHANGED mouse
    /\ UNCHANGED <<stage, frame>>
    /\ CamUnchanged
    /\ UNCHANGED <<polygon_mode, show_wireframe>>

\* the files the Qt viewers load in the camera runs
CamFiles == {"group.usda", "huge.usda", "point.usda", "missing.usda"}

\* the buttons a viewer has a drag for
DragButtons(v) == IF v = "basic" THEN Buttons ELSE {"left", "right"}

\* camera runs: drags with one button at a time, moves with a button held
CamNext ==
    \/ \E f \in Files \cup {"none"} : BasicRun(f)
    \/ BasicRender
    \/ BasicKeyW
    \/ BasicKeyR
    \/ QtCreateSampleStage
    \/ \E l \in Loads : l[1] \in CamFiles /\ QtLoadStage(l[1], l[2])
    \/ \E bboxFails \in BOOLEAN : QtKeyF(bboxFails)
    \/ \E b \in DragButtons(viewer), pos \in PressPositions :
           mouse.held = {} /\ MousePress(b, pos)
    \/ \E b \in Buttons : MouseRelease(b)
    \/ \E d \in AllMoves(viewer) : mouse.held # {} /\ MouseMove(d[1], d[2])
    \/ \E d10 \in ZoomDeltas : CamZoom(d10)

SpecCam == CamInit /\ [][CamNext]_vars

\* mouse runs: presses, releases and moves in any interleaving
MouseNext ==
    \/ BasicRun("none")
    \/ QtCreateSampleStage
    \/ \E b \in Buttons, pos \in PressPositions : MousePress(b, pos)
    \/ \E b \in Buttons : MouseRelease(b)
    \/ \E d \in AllMoves(viewer) : MouseMove(d[1], d[2])

SpecMouse == CamInit /\ [][MouseNext]_vars

(***************************************************************************)
(* Display colors and the tessellation of primitives.  A color is in       *)
(* tenths.  A normal is kept exactly as the signs and the squares of its   *)
(* components: component c is sgn[c] * sqrt(sq[c] / den).  Of the 24       *)
(* slices and the stacks only the angles with rational squared cosines     *)
(* (multiples of 30 and of 45 degrees) are kept.                           *)
(***************************************************************************)
\* self.color = [0.7, 0.7, 0.8]; default=(0.7, 0.7, 0.8)
Gray == <<7, 7, 8>>

ColorInputs ==
    { Absent, Attr(<<>>), Attr(<< <<2, 5, 9>> >>), Attr(<< <<9, 3, 2>>, <<1, 1, 1>> >>) }

\* if colors and len(colors) > 0: return colors[0]; return default
get_display_color(colors, default) ==
    IF Truthy(colors) THEN colors.val[1] ELSE default

\* 4 * math.cos(deg) ** 2
Cos2x4(deg) ==
    LET a == deg % 180
    IN  CASE a = 0 -> 4
          [] a \in {30, 150} -> 3
          [] a \in {45, 135} -> 2
          [] a \in {60, 120} -> 1
          [] a = 90 -> 0

\* 4 * math.sin(deg) ** 2
Sin2x4(deg) == Cos2x4(deg + 90)

\* the sign of math.cos(deg)
SgnCos(deg) ==
    LET a == deg % 360
    IN  IF a < 90 \/ a > 270 THEN 1 ELSE IF a = 90 \/ a = 270 THEN 0 ELSE -1

\* the sign of math.sin(deg)
SgnSin(deg) == SgnCos(deg - 90)

ExactAngle(deg) == deg % 30 = 0 \/ deg % 45 = 0

\* angle = 2 * math.pi * i / slices for i in range(slices + 1)
SliceAngles(slices) ==
    { a \in { (360 * i) \div slices : i \in 0..slices } : ExactAngle(a) }

Normal(sgn, sq, den) == [sgn |-> sgn, sq |-> sq, den |-> den]

AxisNormal(v) == Normal(v, <<v[1] * v[1], v[2] * v[2], v[3] * v[3]>>, 1)

\* render_cube: one glNormal3f per face
CubeNormals ==
    { AxisNormal(<<0, 0, -1>>), AxisNormal(<<0, 0, 1>>), AxisNormal(<<-1, 0, 0>>),
      AxisNormal(<<1, 0, 0>>), AxisNormal(<<0, -1, 0>>), AxisNormal(<<0, 1, 0>>) }

\* lat = math.pi * (-0.5 + i / stacks) for the stack edges i = 0..stacks
StackLats(stacks) ==
    { -90 + (180 * i) \div stacks : i \in { k \in 0..stacks : (180 * k) % stacks = 0 } }

\* glNormal3f(x * zr / radius, y * zr / radius, z / radius) with
\* zr = radius * cos(lat), z = radius * sin(lat), x = cos(lng), y = sin(lng)
SphereNormal(radius, lat, lng) ==
    Normal(<<SgnCos(lng) * SgnCos(lat), SgnSin(lng) * SgnCos(lat), SgnSin(lat)>>,
           <<Cos2x4(lng) * Cos2x4(lat) * radius * radius,
             Sin2x4(lng) * Cos2x4(lat) * radius * radius,
             4 * Sin2x4(lat) * radius * radius>>,
           16 * radius * radius)

\* glVertex3f(x * zr, y * zr, z)
SphereVertex(radius, lat, lng) ==
    Normal(<<SgnCos(lng) * SgnCos(lat), SgnSin(lng) * SgnCos(lat), SgnSin(lat)>>,
           <<Cos2x4(lng) * Cos2x4(lat) * radius * radius,
             Sin2x4(lng) * Cos2x4(lat) * radius * radius,
             4 * Sin2x4(lat) * radius * radius>>,
           16)

\* every vertex of the quad strips with the normal current at it
SpherePoints(radius) ==
    { [lat |-> lat, lng |-> lng, p |-> SphereVertex(radius, lat, lng),
       n |-> SphereNormal(radius, lat, lng)] :
        lat \in { l \in StackLats(16) : ExactAngle(l) }, lng \in SliceAngles(24) }

SphereNormals(radius) ==
    { SphereNormal(radius, lat, lng) :
        lat \in { l \in StackLats(16) : ExactAngle(l) }, lng \in SliceAngles(24) }

\* glNormal3f(x, 0, z)
RingNormal(a) ==
    Normal(<<SgnCos(a), 0, SgnSin(a)>>, <<Cos2x4(a), 0, Sin2x4(a)>>, 4)

\* side strip, top fan (0, 1, 0), bottom fan (0, -1, 0)
CylinderNormals ==
    { RingNormal(a) : a \in SliceAngles(24) }
        \cup { AxisNormal(<<0, 1, 0>>), AxisNormal(<<0, -1, 0>>) }

\* glNormal3f(x, radius / height, z)
ConeSideNormal(radius, height, a) ==
    Normal(<<SgnCos(a), 1, SgnSin(a)>>,
           <<Cos2x4(a) * height * height, 4 * radius * radius,
             Sin2x4(a) * height * height>>,
           4 * height * height)

\* side fan, base fan (0, -1, 0)
ConeNormals(radius, height) ==
    { ConeSideNormal(radius, height, a) : a \in SliceAngles(24) }
        \cup { AxisNormal(<<0, -1, 0>>) }

\* lat0 = (math.pi / 2) * lat_i / 8 and lat1 for lat_i in range(8)
CapLats == { (90 * i) \div 8 : i \in { k \in 0..8 : (90 * k) % 8 = 0 } }

\* glNormal3f(x * r0 / radius, sign * math.sin(lat0), z * r0 / radius) with
\* r0 = radius * cos(lat0)
CapNormal(radius, sign, lat, a) ==
    Normal(<<SgnCos(a) * SgnCos(lat), sign * SgnSin(lat), SgnSin(a) * SgnCos(lat)>>,
           <<Cos2x4(a) * Cos2x4(lat) * radius * radius,
             4 * Sin2x4(lat) * radius * radius,
             Sin2x4(a) * Cos2x4(lat) * radius * radius>>,
           16 * radius * radius)

\* the cylinder part, then the two hemispheres
CapsuleNormals(radius) ==
    { RingNormal(a) : a \in SliceAngles(24) }
        \cup { CapNormal(radius, sign, lat, a) :
                 sign \in {1, -1}, lat \in { l \in CapLats : ExactAngle(l) },
                 a \in SliceAngles(24) }

\* one prim: its type, mesh data, displayColor attribute, radius and height;
\* for a Cube, radius holds size / 2
PrimInput(type, mesh, colors, radius, height) ==
    [type |-> type, mesh |-> mesh, colors |-> colors, radius |-> radius,
     height |-> height]

PrimMeshes ==
    {TriangleMesh, GroundMesh, NoMesh, NegativeIndexMesh, OutOfRangeMesh, ShortIndexMesh}

PrimInputs ==
    { PrimInput("Mesh", m, c, 1, 1) : m \in PrimMeshes, c \in ColorInputs }
    \cup { PrimInput("Cube", NoMesh, c, r, 1) : c \in ColorInputs, r \in 1..MaxDim }
    \cup { PrimInput("Sphere", NoMesh, c, r, 1) : c \in ColorInputs, r \in 1..MaxDim }
    \cup { PrimInput(t, NoMesh, c, r, h) :
             t \in {"Cylinder", "Cone", "Capsule"}, c \in ColorInputs,
             r \in 1..MaxDim, h \in 1..MaxDim }

\* the built-in geometry of the basic viewer
SampleInputs ==
    { PrimInput("sample_cube", NoMesh, Absent, 1, 1) }
    \cup { PrimInput("sample_sphere", NoMesh, Absent, r, 1)
               @@ [segments |-> sg, rings |-> rg] :
             r \in 1..MaxDim, sg \in {1, 2, 4}, rg \in {1, 2} }

PrimInit ==
    /\ viewer \in AllViewers
    /\ meshIn \in PrimInputs \cup SampleInputs
    /\ (viewer = "pyside6" => meshIn.type = "Mesh")
    /\ (viewer = "basic" => meshIn.type = "Mesh" \/ meshIn \in SampleInputs)
    /\ (viewer = "pyqt6" => meshIn \in PrimInputs)
    /\ triOut = NoOut
    /\ usdLib = TRUE
    /\ imagingLib = FALSE
    /\ glReady = FALSE
    /\ renderer = "None"
    /\ stage = "None"
    /\ draw_mode = "shaded"
    /\ enable_lighting = TRUE
    /\ camera = IF viewer = "basic" THEN NewBasicCamera ELSE NewCamera
    /\ frameNo = 0
    /\ frame = NoFrame
    /\ errLog = 0
    /\ hydraFailed = FALSE
    /\ lastOp = Op("construct", "-", "-")
    /\ nEvents = 0
    /\ mouse = NewMouse(viewer)
    /\ polygon_mode = "GL_FILL"
    /\ show_wireframe = FALSE

\* what one draw of a prim leaves on the GL surface
PrimDraw(op, drawn, color, normals) ==
    [op |-> op, drawn |-> drawn, color |-> color, normals |-> normals]

\* extract_mesh_from_prim: mesh.color stays the default unless colors[0] exists
PrimBasicExtract ==
    /\ viewer = "basic"
    /\ meshIn.type = "Mesh"
    /\ triOut.op = "none"
    /\ LET m == extract_mesh_from_prim(meshIn.mesh)
       IN  triOut' = PrimDraw("extract_mesh_from_prim", ~m.raised,
                              get_display_color(meshIn.colors, Gray), m.normals)
                      @@ [vertices |-> m.vertices,
                          faces |-> IF m.raised THEN <<>> ELSE m.faces]
    /\ UNCHANGED meshIn
    /\ UNCHANGED viewVars

\* render_mesh_simple: glColor3f(colors[0]) or glColor3f(0.7, 0.7, 0.8)
PrimRenderMeshSimple ==
    /\ viewer = "pyside6"
    /\ meshIn.type = "Mesh"
    /\ triOut.op = "none"
    /\ LET r == QtDraw("pyside6", render_mesh_simple(meshIn.mesh))
       IN  triOut' = PrimDraw("render_mesh_simple", r.drawn,
                              IF r.drawn THEN get_display_color(meshIn.colors, Gray)
                              ELSE "none",
                              r.normals)
    /\ UNCHANGED meshIn
    /\ UNCHANGED viewVars

\* render_mesh: color = self.get_display_color(prim)
PrimRenderMesh ==
    /\ viewer = "pyqt6"
    /\ meshIn.type = "Mesh"
    /\ triOut.op = "none"
    /\ LET r == QtDraw("pyqt6", render_mesh(meshIn.mesh))
       IN  triOut' = PrimDraw("render_mesh", r.drawn,
                              IF r.drawn THEN get_display_color(meshIn.colors, Gray)
                              ELSE "none",
                              r.normals)
    /\ UNCHANGED meshIn
    /\ UNCHANGED viewVars

\* create_sample_cube: mesh.color = [0.3, 0.6, 0.9]; mesh.compute_normals()
PrimCreateSampleCube ==
    /\ viewer = "basic"
    /\ meshIn.type = "sample_cube"
    /\ triOut.op = "none"
    /\ triOut' = PrimDraw("create_sample_cube", TRUE, <<3, 6, 9>>,
                          [t \in 1..Len(SampleCubeTriangles) |-> SampleCubeTriangles[t].n])
                   @@ [vertices |-> CubeCorners(1), faces |-> SampleCubeFaces,
                       tris |-> SampleCubeTriangles]
    /\ UNCHANGED meshIn
    /\ UNCHANGED viewVars

\* create_sample_sphere: mesh.color = [0.9, 0.5, 0.3]; mesh.compute_normals()
PrimCreateSampleSphere ==
    /\ viewer = "basic"
    /\ meshIn.type = "sample_sphere"
    /\ triOut.op = "none"
    /\ LET m == create_sample_sphere(meshIn.radius, meshIn.segments, meshIn.rings)
       IN  triOut' = PrimDraw("create_sample_sphere", ~m.raised, <<9, 5, 3>>, m.normals)
                      @@ [vertices |-> m.vertices, residue |-> m.residue,
                          faces |-> m.faces]
    /\ UNCHANGED meshIn
    /\ UNCHANGED viewVars

\* render_cube: color = self.get_display_color(prim, (0.3, 0.5, 0.8))
PrimRenderCube ==
    /\ viewer = "pyqt6"
    /\ meshIn.type = "Cube"
    /\ triOut.op = "none"
    /\ triOut' = PrimDraw("render_cube", TRUE,
                          get_display_color(meshIn.colors, <<3, 5, 8>>), CubeNormals)
                   @@ [vertices |-> CubeCorners(meshIn.radius),
                       tris |-> QuadTriangles(CubeQuads)]
    /\ UNCHANGED meshIn
    /\ UNCHANGED viewVars

\* render_sphere: color = self.get_display_color(prim, (0.8, 0.3, 0.3))
PrimRenderSphere ==
    /\ viewer = "pyqt6"
    /\ meshIn.type = "Sphere"
    /\ triOut.op = "none"
    /\ triOut' = PrimDraw("render_sphere", TRUE,
                          get_display_color(meshIn.colors, <<8, 3, 3>>),
                          SphereNormals(meshIn.radius))
                   @@ [points |-> SpherePoints(meshIn.radius)]
    /\ UNCHANGED meshIn
    /\ UNCHANGED viewVars

\* render_cylinder: color = self.get_display_color(prim, (0.3, 0.7, 0.3))
PrimRenderCylinder ==
    /\ viewer = "pyqt6"
    /\ meshIn.type = "Cylinder"
    /\ triOut.op = "none"
    /\ triOut' = PrimDraw("render_cylinder", TRUE,
                          get_display_color(meshIn.colors, <<3, 7, 3>>),
                          CylinderNormals)
    /\ UNCHANGED meshIn
    /\ UNCHANGED viewVars

\* render_cone: color = self.get_display_color(prim, (0.9, 0.7, 0.2))
PrimRenderCone ==
    /\ viewer = "pyqt6"
    /\ meshIn.type = "Cone"
    /\ triOut.op = "none"
    /\ triOut' = PrimDraw("render_cone", TRUE,
                          get_display_color(meshIn.colors, <<9, 7, 2>>),
                          ConeNormals(meshIn.radius, meshIn.height))
    /\ UNCHANGED meshIn
    /\ UNCHANGED viewVars

\* render_capsule: color = self.get_display_color(prim, (0.8, 0.5, 0.2))
PrimRenderCapsule ==
    /\ viewer = "pyqt6"
    /\ meshIn.type = "Capsule"
    /\ triOut.op = "none"
    /\ triOut' = PrimDraw("render_capsule", TRUE,
                          get_display_color(meshIn.colors, <<8, 5, 2>>),
                          CapsuleNormals(meshIn.radius))
    /\ UNCHANGED meshIn
    /\ UNCHANGED viewVars

PrimNext ==
    \/ PrimBasicExtract
    \/ PrimCreateSampleCube
    \/ PrimCreateSampleSphere
    \/ PrimRenderMeshSimple
    \/ PrimRenderMesh
    \/ PrimRenderCube
    \/ PrimRenderSphere
    \/ PrimRenderCylinder
    \/ PrimRenderCone
    \/ PrimRenderCapsule

SpecPrim == PrimInit /\ [][PrimNext]_vars

(***************************************************************************)
(* Properties of the triangulation (SpecTri).                              *)
(***************************************************************************)
RECURSIVE SumTo(_, _)
SumTo(counts, k) == IF k <= 0 THEN 0 ELSE counts[k] + SumTo(counts, k - 1)

\* triangles of the faces 1..k when every one of them is complete
RECURSIVE TrianglesTo(_, _)
TrianglesTo(counts, k) ==
    IF k <= 0 THEN 0 ELSE Max2(0, counts[k] - 2) + TrianglesTo(counts, k - 1)

\* the triangle over positions a, b, c of the flattened index array, as the
\* viewer emits it: vertex indices (basic viewer) or vertex positions (Qt)
Emitted(op, points, indices, a, b, c) ==
    IF op = "basic"
    THEN <<indices[a + 1], indices[b + 1], indices[c + 1]>>
    ELSE <<points[indices[a + 1] + 1], points[indices[b + 1] + 1],
           points[indices[c + 1] + 1]>>

Completed == triOut.op # "none" /\ ~triOut.raised /\ ~MeshDataMissing(meshIn)

\* C1: in every triangulation that completes, a face with c >= 3 vertices whose
\* indices are all present yields exactly c - 2 triangles, the i-th over the
\* face's local positions (0, i, i+1), in all three viewers.
C1_FanTriangulation ==
    Completed =>
        LET C == meshIn.counts.val
            I == meshIn.indices.val
            P == meshIn.points.val
        IN  /\ \A k \in 1..Len(C) :
                  (C[k] >= 3 /\ SumTo(C, k) <= Len(I)) =>
                      \A i \in 1..(C[k] - 2) :
                          LET t == TrianglesTo(C, k - 1) + i
                              off == SumTo(C, k - 1)
                          IN  /\ t <= Len(triOut.tris)
                              /\ triOut.tris[t]
                                    = Emitted(triOut.op, P, I, off, off + i, off + i + 1)
            /\ SumTo(C, Len(C)) <= Len(I) =>
                  Len(triOut.tris) = TrianglesTo(C, Len(C))

\* a quad after a triangle, both complete, fanned into 1 + 2 triangles
C1_Witness ==
    /\ triOut.op = "pyside6"
    /\ ~triOut.raised
    /\ meshIn.points.val = <<PA, PB, PC, PD>>
    /\ meshIn.counts.val = <<3, 4>>
    /\ meshIn.indices.val = <<0, 1, 2, 0, 1, 2, 3>>
    /\ triOut.tris = << <<PA, PB, PC>>, <<PA, PB, PC>>, <<PA, PC, PD>> >>

\* C2: a face with fewer than 3 vertices emits no triangle and does not fail: a
\* mesh of such faces alone ends without error and without a triangle, and no
\* mesh ever yields more triangles than its faces with c >= 3 account for.
C2_ShortFacesEmitNothing ==
    triOut.op # "none" =>
        LET C == meshIn.counts.val
        IN  /\ (\A k \in 1..Len(C) : C[k] < 3) =>
                  (~triOut.raised /\ triOut.tris = <<>>)
            /\ Len(triOut.tris) <= TrianglesTo(C, Len(C))

C2_Witness ==
    /\ triOut.op = "basic"
    /\ meshIn.counts.val = <<2, 1>>
    /\ Len(meshIn.indices.val) = 3
    /\ Truthy(meshIn.points)
    /\ triOut.drawn
    /\ triOut.tris = <<>>

\* corner positions of the t-th emitted triangle
TrianglePoints(t) ==
    IF triOut.op = "basic"
    THEN [j \in 1..3 |-> meshIn.points.val[triOut.tris[t][j] + 1]]
    ELSE triOut.tris[t]

ZeroCross(t) ==
    LET q == TrianglePoints(t)
    IN  Cross(Sub(q[2], q[1]), Sub(q[3], q[1])) = <<0, 0, 0>>

\* C3: a triangle whose cross product has zero length carries the normal
\* (0,1,0) in every viewer, and no zero vector is emitted as a normal.
C3_DegenerateNormalIsUp ==
    \A t \in 1..Len(triOut.normals) :
        /\ triOut.normals[t].v # <<0, 0, 0>>
        /\ ZeroCross(t) => triOut.normals[t] = UpNormal

\* C4: a mesh prim lacking points, face counts or face indices yields no
\* triangle and no draw, and raises nothing.
C4_MissingDataSkipsPrim ==
    (triOut.op # "none" /\ MeshDataMissing(meshIn)) =>
        (~triOut.raised /\ ~triOut.drawn /\ triOut.tris = <<>>)

(***************************************************************************)
(* Properties of the render dispatch (Spec).                               *)
(***************************************************************************)
Painted == lastOp.name = "paintGL"

RenderCalls(calls) == {i \in 1..Len(calls) : calls[i].fn = "Render"}

\* C5: a frame over a loaded stage with a renderer handle whose render call
\* succeeds hands the camera's view and projection matrices and the current
\* draw mode to the renderer, calls Render once and runs no fallback.
C5_HydraFrameDelegates ==
    (Painted /\ stage # "None" /\ renderer # "None" /\ frame.hydra # "raised") =>
        /\ frame.hydra = "ok"
        /\ Cardinality(RenderCalls(frame.calls)) = 1
        /\ \A i \in RenderCalls(frame.calls) :
              /\ frame.calls[i].root = stage
              /\ frame.calls[i].drawMode
                    = (CASE draw_mode = "shaded" -> "DRAW_SHADED_SMOOTH"
                         [] draw_mode = "wireframe" -> "DRAW_WIREFRAME"
                         [] draw_mode = "points" -> "DRAW_POINTS")
              /\ \E j \in 1..(i - 1) :
                    /\ frame.calls[j].fn = "SetCameraState"
                    /\ frame.calls[j].view
                          = [eye |-> [target |-> camera.target,
                                      distance |-> camera.distance,
                                      azimuth |-> camera.azimuth,
                                      elevation |-> camera.elevation],
                             at |-> camera.target, up |-> <<0, 1, 0>>]
                    /\ frame.calls[j].proj
                          = [fov |-> camera.fov, aspect |-> "w/h",
                             near |-> camera.near, far |-> camera.far]
        /\ ~frame.fallback.ran

C5_Witness ==
    /\ Painted
    /\ stage = "group.usda"
    /\ renderer = "Engine"
    /\ draw_mode = "points"
    /\ frame.hydra = "ok"
    /\ camera.distance = 12000

\* C6: when the renderer raises in a frame, no exception leaves that
\* frame: the renderer's exception is caught and the fallback path runs to
\* its end in the same frame, drawing every sound mesh of the scene.
C6_HydraFailureFallsBack ==
    (Painted /\ frame.hydra = "raised") =>
        /\ lastOp.ret = "None"
        /\ frame.fallback.ran
        /\ ~frame.fallback.raised
        /\ \A k \in 1..Len(Scene(stage, viewer)) :
              LET prim == Scene(stage, viewer)[k]
              IN  (/\ prim.type = "Mesh"
                   /\ ~MeshDataMissing(prim.mesh)
                   /\ ~render_mesh(prim.mesh).raised) =>
                      \E i \in 1..Len(frame.fallback.draws) :
                          frame.fallback.draws[i].prim = k

\* C7: once the renderer has failed, at initialization or in a frame, no
\* later frame invokes it again.
C7_NoRendererAfterFailure == frame.failedBefore => frame.hydra = "none"

\* C8: the render-failure message is printed at most once in a run.
C8_FailureLoggedOnce == errLog <= 1

\* C9: with the renderer's import failed but the scene library present, the
\* sample scene and every openable file become the stage, and every frame
\* over a stage runs the fallback path.
C9_AbsentRendererStillLoads ==
    (~USD_HYDRA_AVAILABLE /\ usdLib) =>
        /\ lastOp.name = "create_sample_stage" => stage = "sample"
        /\ (lastOp.name = "load_stage" /\ FileOpen(lastOp.arg) = "ok") =>
              stage = lastOp.arg
        /\ (Painted /\ stage # "None") => frame.fallback.ran

\* prims of the stage that call for a draw
Renderable(prims) ==
    {k \in 1..Len(prims) :
        \/ prims[k].type \in {"Cube", "Sphere", "Cylinder", "Cone", "Capsule"}
        \/ prims[k].type = "Mesh" /\ ~MeshDataMissing(prims[k].mesh)}

\* C10: a fallback frame issues exactly one draw for every prim of type Mesh
\* (with data), Cube, Sphere, Cylinder, Cone or Capsule, and none for others.
C10_OneDrawPerRenderablePrim ==
    (Painted /\ frame.fallback.ran /\ ~frame.fallback.raised) =>
        LET prims == Scene(stage, viewer)
            draws == frame.fallback.draws
        IN  /\ \A k \in Renderable(prims) :
                  Cardinality({i \in 1..Len(draws) : draws[i].prim = k}) = 1
            /\ \A i \in 1..Len(draws) : draws[i].prim \in Renderable(prims)

\* C11: every draw of a fallback frame is issued in the mode matching the
\* current draw mode: shaded is filled polygons with lighting on, wireframe
\* is line polygons with lighting off, points is point polygons with
\* lighting off.
C11_FallbackDrawMode ==
    (Painted /\ frame.fallback.ran) =>
        \A i \in 1..Len(frame.fallback.draws) :
            LET d == frame.fallback.draws[i]
            IN  CASE draw_mode = "shaded" -> d.polygon = "GL_FILL" /\ d.lighting
                  [] draw_mode = "wireframe" -> d.polygon = "GL_LINE" /\ ~d.lighting
                  [] draw_mode = "points" -> d.polygon = "GL_POINT" /\ ~d.lighting

\* C24: every face consumes exactly its count of indices, emitted or not: a
\* complete face with c >= 3 that comes after a face with fewer than 3
\* vertices still reads its vertices at the offset sum(counts[0..k-1]).
C24_SkippedFacesConsume ==
    Completed =>
        LET C == meshIn.counts.val
            I == meshIn.indices.val
            P == meshIn.points.val
        IN  \A k \in 2..Len(C) :
                (/\ C[k] >= 3
                 /\ SumTo(C, k) <= Len(I)
                 /\ \E j \in 1..(k - 1) : C[j] < 3 /\ C[j] > 0) =>
                    \A i \in 1..(C[k] - 2) :
                        \E t \in 1..Len(triOut.tris) :
                            /\ t = TrianglesTo(C, k - 1) + i
                            /\ triOut.tris[t]
                                  = Emitted(triOut.op, P, I, SumTo(C, k - 1),
                                            SumTo(C, k - 1) + i, SumTo(C, k - 1) + i + 1)

\* a one-vertex face before a triangle: the triangle is read at offset 1
C24_Witness ==
    /\ triOut.op = "pyqt6"
    /\ ~triOut.raised
    /\ meshIn.points.val = <<PA, PB, PC, PD>>
    /\ meshIn.counts.val = <<1, 3>>
    /\ meshIn.indices.val = <<3, 0, 1, 2>>
    /\ triOut.tris = << <<PA, PB, PC>> >>

\* C25: a mesh with malformed indices is never fatal to a fallback frame:
\* the frame ends without an uncaught error and every sound mesh of the
\* scene is still drawn.
C25_MalformedMeshNotFatal ==
    (Painted /\ frame.fallback.ran) =>
        /\ ~frame.fallback.raised
        /\ \A k \in 1..Len(Scene(stage, viewer)) :
              LET prim == Scene(stage, viewer)[k]
              IN  (/\ prim.type = "Mesh"
                   /\ ~MeshDataMissing(prim.mesh)
                   /\ ~render_mesh(prim.mesh).raised) =>
                      \E i \in 1..Len(frame.fallback.draws) :
                          frame.fallback.draws[i].prim = k

(***************************************************************************)
(* Properties of the orbit camera (SpecCam).                               *)
(***************************************************************************)
\* the camera before the last input event
Before == lastOp.arg.before

\* key F found a stage with a bound to frame and called frame_bounds
Framed ==
    /\ lastOp.name = "frame"
    /\ ~lastOp.arg.bboxFails
    /\ stage # "None"
    /\ (viewer = "pyside6" => USD_HYDRA_AVAILABLE)
    /\ ~FileBBox(stage).empty

\* C12: the elevation always lies in [-89, 89] degrees, and a rotate(0, 1000)
\* leaves it at exactly 89 degrees, the first time and every time after.
C12_ElevationClamped ==
    /\ camera.elevation >= -890
    /\ camera.elevation <= 890
    /\ (lastOp.name = "rotate" /\ lastOp.arg.dx = 0 /\ lastOp.arg.dy = 1000)
           => camera.elevation = 890

\* a second rotate(0, 1000), from an elevation already at 89 degrees
C12_Witness ==
    /\ lastOp.name = "rotate"
    /\ lastOp.arg.dx = 0
    /\ lastOp.arg.dy = 1000
    /\ Before.elevation = 890
    /\ camera.elevation = 890

\* C13: the camera distance is strictly positive in every reachable state.
C13_DistancePositive == camera.distance > 0

\* C14: right after zoom(delta) the distance is the prior distance times
\* (1 - delta * 0.1), clamped into [0.1, 100] in the basic viewer and into
\* [0.01, 10000] in the Qt viewers.
C14_ZoomClamped ==
    lastOp.name = "zoom" =>
        LET scaled100 == Before.distance * (100 - lastOp.arg.d10)
            lo100 == IF viewer = "basic" THEN 10000 ELSE 1000
            hi100 == IF viewer = "basic" THEN 10000000 ELSE 1000000000
        IN  camera.distance * 100 =
               (IF scaled100 < lo100 THEN lo100
                ELSE IF scaled100 > hi100 THEN hi100 ELSE scaled100)

\* a Qt zoom that doubles a distance of 6000 and stops at 10000
C14_Witness ==
    /\ viewer = "pyside6"
    /\ lastOp.name = "zoom"
    /\ lastOp.arg.d10 = -100
    /\ Before.distance = 6000000
    /\ camera.distance = 10000000

\* C15: frame_bounds on bounds with a positive largest extent sets the target
\* to the midpoint and the distance to twice the largest extent, and leaves
\* azimuth and elevation alone; the sample stage's [-5,0,-5]..[5,3,5] gives
\* target (0, 1.5, 0) and distance 20.
C15_FrameBounds ==
    /\ (lastOp.name = "create_sample_stage" /\ stage = "sample") =>
           /\ camera.target = <<0, 1500000, 0>>
           /\ camera.distance = 20000
           /\ camera.azimuth = 450
           /\ camera.elevation = 300
    /\ Framed =>
           LET b == FileBBox(stage)
               ext == [c \in 1..3 |-> b.max[c] - b.min[c]]
           IN  (\E c \in 1..3 : ext[c] > 0) =>
                  /\ \A c \in 1..3 : 2 * camera.target[c] = (b.min[c] + b.max[c]) * 1000000
                  /\ \E c \in 1..3 : camera.distance = 2 * ext[c] * 1000
                  /\ \A c \in 1..3 : camera.distance >= 2 * ext[c] * 1000
                  /\ camera.azimuth = Before.azimuth
                  /\ camera.elevation = Before.elevation

\* key F on group.usda after the camera was turned, panned or zoomed away
C15_Witness ==
    /\ Framed
    /\ stage = "group.usda"
    /\ Before.azimuth # 450
    /\ Before.distance # 12000
    /\ camera.target = <<1000000, 1000000, 0>>
    /\ camera.distance = 12000

\* C16: framing on bounds whose largest extent is zero sets the distance to
\* the fixed fallback, never to zero or less: frame_bounds in the Qt viewers
\* and fit_camera_to_scene in the basic viewer.
C16_DegenerateFallback ==
    /\ (Framed /\ \A c \in 1..3 : FileBBox(stage).max[c] <= FileBBox(stage).min[c])
           => camera.distance = 10000
    /\ (viewer = "basic" /\ lastOp.name \in {"load_meshes", "reset"}) =>
           LET ms == load_meshes(stage)
               flat == \A c \in 1..3 : \A i, j \in 1..Len(ms) :
                           get_bounds(ms[i]).max[c] <= get_bounds(ms[j]).min[c]
           IN  flat => camera.distance \in {5000, 10000}

\* C17 as stated: pan moves the target by +dx * scale along the right vector
\* (cos az, 0, -sin az) and by +dy * scale along world up, scale being
\* distance * k2; distance, azimuth and elevation are unchanged.
C17_PanAlongRight ==
    lastOp.name = "pan" =>
        LET scale == Before.distance * (IF viewer = "basic" THEN 2 ELSE 1)
            dx == lastOp.arg.dx
            dy == lastOp.arg.dy
        IN  /\ camera.target[1] = Before.target[1] + dx * scale * CosAz(Before.azimuth)
            /\ camera.target[2] = Before.target[2] + dy * scale
            /\ camera.target[3] = Before.target[3] + dx * scale * (-SinAz(Before.azimuth))
            /\ camera.distance = Before.distance
            /\ camera.azimuth = Before.azimuth
            /\ camera.elevation = Before.elevation

\* C17: pan moves the target by -dx * scale along the right vector
\* (cos az, 0, -sin az) and by +dy * scale along world up, scale being
\* distance * k2 (0.002 basic, 0.001 Qt); at azimuth 0 a pan with dx > 0
\* decreases target.x. Distance, azimuth and elevation are unchanged.
C17_PanAgainstRight ==
    lastOp.name = "pan" =>
        LET scale == Before.distance * (IF viewer = "basic" THEN 2 ELSE 1)
            dx == lastOp.arg.dx
            dy == lastOp.arg.dy
        IN  /\ camera.target[1] = Before.target[1] - dx * scale * CosAz(Before.azimuth)
            /\ camera.target[2] = Before.target[2] + dy * scale
            /\ camera.target[3] = Before.target[3] - dx * scale * (-SinAz(Before.azimuth))
            /\ camera.distance = Before.distance
            /\ camera.azimuth = Before.azimuth
            /\ camera.elevation = Before.elevation

\* a pan with dx > 0 at azimuth 0: target.x went down by dx * scale
C17_Witness ==
    /\ lastOp.name = "pan"
    /\ Before.azimuth = 0
    /\ lastOp.arg.dx = 10
    /\ camera.target[1] < Before.target[1]
    /\ camera.target[3] = Before.target[3]

\* the offset a mesh of the basic viewer is meant to be drawn at: the
\* translation of its prim's world transform, or the 2 units along x of the
\* second sample mesh
IntendedOffset(i) ==
    IF ~FileExists(stage)
    THEN IF i = 2 THEN <<2, 0, 0>> ELSE <<0, 0, 0>>
    ELSE IF load_meshes(stage)[i].name = stage
         THEN SubSeq(WorldTransform(stage, i)[4], 1, 3)
         ELSE <<0, 0, 0>>

\* C18: every matrix the basic viewer hands to glMultMatrixf is affine, with
\* projective row (0, 0, 0, 1) and the mesh's intended offset as its
\* translation, for loaded meshes and sample meshes alike.
C18_AffineWorldMatrix ==
    (viewer = "basic" /\ lastOp.name = "render") =>
        \A i \in 1..Len(frame.matrices) :
            LET m == frame.matrices[i]
            IN  /\ m[4] = <<0, 0, 0, 1>>
                /\ <<m[1][4], m[2][4], m[3][4]>> = IntendedOffset(frame.mesh[i])

(***************************************************************************)
(* Properties of the primitive draws (SpecPrim).                           *)
(***************************************************************************)
PrimitiveOps ==
    {"render_cube", "render_sphere", "render_cylinder", "render_cone", "render_capsule"}

\* C19: a draw of any renderable prim uses the prim's first display color
\* when it has one, and the neutral gray (0.7, 0.7, 0.8) when it has none.
C19_DisplayColor ==
    (triOut.op # "none" /\ meshIn \in PrimInputs /\ triOut.drawn) =>
        triOut.color = (IF meshIn.colors.present /\ meshIn.colors.val # <<>>
                        THEN meshIn.colors.val[1]
                        ELSE <<7, 7, 8>>)

\* C20: every normal a primitive tessellation emits has length 1: the
\* squares of its components add up to 1.
C20_UnitNormals ==
    triOut.op \in PrimitiveOps =>
        \A n \in triOut.normals : n.sq[1] + n.sq[2] + n.sq[3] = n.den

\* the triangles of a cube draw whose three corners lie on the face at
\* coordinate c = s * half
FaceTriangles(c, s) ==
    { t \in 1..Len(triOut.tris) :
        \A j \in 1..3 :
            triOut.vertices[triOut.tris[t].idx[j] + 1][c] = s * triOut.vertices[7][1] }

\* C21: a cube is 12 triangles over 8 corners, 2 per face, and both triangles
\* of a face carry the face's outward axis-aligned unit normal.
C21_CubeTessellation ==
    triOut.op \in {"create_sample_cube", "render_cube"} =>
        /\ Len(triOut.vertices) = 8
        /\ Cardinality({triOut.vertices[i] : i \in 1..8}) = 8
        /\ Len(triOut.tris) = 12
        /\ \A c \in 1..3 : \A s \in {-1, 1} :
              /\ Cardinality(FaceTriangles(c, s)) = 2
              /\ \A t \in FaceTriangles(c, s) :
                    LET n == triOut.tris[t].n
                    IN  /\ n.v[c] * s > 0
                        /\ n.v[c] * n.v[c] = n.d2
                        /\ \A o \in (1..3) \ {c} : n.v[o] = 0

\* the sign of an integer
Sgn(x) == IF x > 0 THEN 1 ELSE IF x < 0 THEN -1 ELSE 0

\* C22: the sphere's latitude axis is local Y: the lowest and highest ring
\* are the points (0, -R, 0) and (0, +R, 0), every ring has y = R * sin(lat),
\* and the normal emitted with a vertex is its position divided by R.
C22_SphereAxisY ==
    /\ triOut.op = "render_sphere" =>
          \A pt \in triOut.points :
              LET R == meshIn.radius
              IN  /\ pt.lat = -90 => (pt.p.sgn = <<0, -1, 0>>
                                       /\ pt.p.sq = <<0, R * R * pt.p.den, 0>>)
                  /\ pt.lat = 90 => (pt.p.sgn = <<0, 1, 0>>
                                      /\ pt.p.sq = <<0, R * R * pt.p.den, 0>>)
                  /\ 4 * pt.p.sq[2] = R * R * Sin2x4(pt.lat) * pt.p.den
                  /\ pt.p.sgn[2] = SgnSin(pt.lat)
                  /\ pt.n.sgn = pt.p.sgn
                  /\ \A c \in 1..3 :
                        pt.n.sq[c] * R * R * pt.p.den = pt.p.sq[c] * pt.n.den
    /\ triOut.op = "create_sample_sphere" =>
          LET R == meshIn.radius
              sg == meshIn.segments
              last == meshIn.rings * sg
          IN  /\ \A k \in 1..sg : /\ triOut.vertices[k] = <<0, R, 0>>
                                   /\ triOut.vertices[last + k] = <<0, -R, 0>>
              /\ \A k \in 1..Len(triOut.vertices) :
                    triOut.vertices[k][2] =
                        R * SinDeg(90 - (180 * ((k - 1) \div sg)) \div meshIn.rings)
              /\ \A t \in 1..Len(triOut.faces) : \A j \in 1..3 :
                    LET v == triOut.vertices[triOut.faces[t][j] + 1]
                        n == triOut.normals[t]
                    IN  \A c \in 1..3 :
                          /\ Sgn(n.v[c]) = Sgn(v[c])
                          /\ n.v[c] * n.v[c] * R * R = v[c] * v[c] * n.d2

BufferOps == {"create_sample_cube", "create_sample_sphere", "extract_mesh_from_prim"}

\* C23: every geometry buffer the basic viewer builds has as many normals as
\* triangles, and every triangle index i satisfies 0 <= i < number of
\* vertices.
C23_BufferInvariant ==
    (triOut.op \in BufferOps /\ triOut.drawn) =>
        /\ Len(triOut.normals) = Len(triOut.faces)
        /\ \A t \in 1..Len(triOut.faces) : \A j \in 1..Len(triOut.faces[t]) :
              /\ triOut.faces[t][j] >= 0
              /\ triOut.faces[t][j] < Len(triOut.vertices)

\* C26: load_usd_file never returns an empty list, and without the library,
\* with a file that does not open, with no mesh prim in it or with an error
\* while reading it, every mesh returned is built-in sample geometry.
C26_LoadNeverEmpty ==
    (viewer = "basic" /\ lastOp.name = "load_meshes" /\ FileExists(stage)) =>
        LET ms == load_usd_file(stage)
            prims == Scene(stage, "basic")
            ks == MeshPrims(prims)
            noContents ==
                \/ ~usdLib
                \/ FileOpen(stage) # "ok"
                \/ ks = <<>>
                \/ \E i \in 1..Len(ks) :
                       extract_mesh_from_prim(prims[ks[i]].mesh).raised
        IN  /\ ms # <<>>
            /\ noContents =>
                  \A i \in 1..Len(ms) : ms[i].name \in {"sample_cube", "sample_sphere"}

C26_Witness ==
    /\ viewer = "basic"
    /\ lastOp.name = "load_meshes"
    /\ usdLib
    /\ stage = "empty.usda"
    /\ camera = fit_camera_to_scene(NewBasicCamera, <<SampleCube>>)

\* C27: a load_stage that returns False leaves the stage that was loaded
\* before it, and the camera, exactly as they were.
C27_FailedLoadKeepsStage ==
    [][(lastOp'.name = "load_stage" /\ lastOp'.ret = "False") =>
           (stage' = stage /\ camera' = camera)]_vars

MouseOps == {"mousePress", "mouseRelease", "rotate", "pan", "zoom", "mouseMove"}

\* the last step was a cursor move
CursorMoved(op) ==
    op.name \in {"rotate", "pan", "zoom", "mouseMove"} /\ op.arg.by = "move"

\* C28: after every press, release and move, each drag flag is true exactly
\* while its own button is held, and a cursor move with no button held
\* changes no camera parameter.
C28_DragFlagsFollowButtons ==
    /\ [](lastOp.name \in MouseOps =>
            /\ mouse.rotating <=> "left" \in mouse.held
            /\ mouse.panning <=> "right" \in mouse.held
            /\ viewer = "basic" => (mouse.zooming <=> "middle" \in mouse.held))
    /\ [][(CursorMoved(lastOp') /\ mouse.held = {}) => camera' = camera]_vars

\* C29: in every state the camera distance lies inside the range the zoom
\* clamps to, right after a framing too, so that a zoom by 0 changes nothing.
C29_DistanceInZoomRange ==
    /\ camera.distance >= MinDistance(viewer)
    /\ camera.distance <= MaxDistance(viewer)
    /\ zoom(viewer, camera, 0) = camera

\* a vertex (in 1/1000 unit) under the matrix its mesh is drawn with
WorldPoint(m, v) ==
    [c \in 1..3 |-> m[c][1] * v[1] + m[c][2] * v[2] + m[c][3] * v[3] + m[c][4] * 1000]

\* the vertices of every mesh of the scene, each under its mesh's own matrix
WorldPoints(meshes) ==
    UNION { { WorldPoint(MeshRenderMatrix(meshes[i]), meshes[i].vertices[j]) :
                j \in 1..Len(meshes[i].vertices) } : i \in 1..Len(meshes) }

\* C30: after the basic viewer has framed its scene, the camera target is the
\* centre of the union of the meshes' bounds, each mesh under its own
\* transform (for scenes whose matrices are all affine).
C30_TargetIsWorldCentre ==
    (viewer = "basic" /\ lastOp.name \in {"load_meshes", "reset"}) =>
        LET ms == load_meshes(stage)
            pts == WorldPoints(ms)
        IN  (\A i \in 1..Len(ms) : MeshRenderMatrix(ms[i])[4] = <<0, 0, 0, 1>>) =>
                \A c \in 1..3 :
                    \E a \in pts, b \in pts :
                        /\ \A q \in pts : a[c] <= q[c] /\ q[c] <= b[c]
                        /\ camera.target[c] = (a[c] + b[c]) * 500

====
